---- MODULE Spec2Model ----
(***************************************************************************)
(* A model of the content-to-slide-deck pipeline and the deck renderer of  *)
(* the AI presentation maker: image resolution (backend/config/ai.js),     *)
(* the fallback slide builders, the page scraper and the PowerPoint        *)
(* renderer (backend/utils/urlHandler.js), the generation service          *)
(* (backend/config/ai.js) and the request handlers with the stored         *)
(* presentations (backend/controllers/generateController.js).              *)
(*                                                                         *)
(* JavaScript strings are modelled as TLA+ strings; the string algorithms  *)
(* work on their sequence of one-character strings (Chars).                *)
(***************************************************************************)
EXTENDS Integers, Sequences, FiniteSets, TLC

VARIABLES
    imgKeyword,   \* fetchImageForSlide: the keyword argument of the call
    imgResult,    \* fetchImageForSlide: what the call returned and logged
    imageLog,     \* the calls of fetchImageForSlide made so far, in order
    layArgs,      \* determineSlideLayout: index, totalSlides, slideData and a
                  \* second slide with the same image presence and point count
    layResult,    \* determineSlideLayout: the layouts returned for the two slides
    renderDeck,   \* generatePowerPoint: presentationData
    renderTheme,  \* generatePowerPoint: themeName
    renderPc,     \* generatePowerPoint: where the call is
    renderIndex,  \* generatePowerPoint: index of the content loop
    downloads,    \* generatePowerPoint: what each downloadImageAsBase64 call gave
    pptx,         \* generatePowerPoint: the slides added to the document, in order
    txtArgs,      \* textToBasicSlides: text and slideCount
    txtResult,    \* textToBasicSlides: the deck returned
    clnArg,       \* cleanExtractedText: the text argument
    clnResult,    \* cleanExtractedText: the text returned
    req,          \* a generation request: endpoint, body, file, authenticated user
    handlerPc,    \* the request handler: where it is
    reqSlides,    \* the request handler: the validated slide count, 0 before
    calls,        \* the request handler: the calls it made to its collaborators
    presentation, \* the request handler: the deck it holds
    stored,       \* the documents created in the Presentation collection
    res,          \* the response sent, if any
    aiDoc,        \* parseAIResponse: the JSON value the service put in its answer
    aiWrapper,    \* parseAIResponse: what the service put around the JSON text
    aiText,       \* parseAIResponse: responseText
    parseResult,  \* parseAIResponse: what the call returned or threw
    openaiKey,    \* generatePresentation: process.env.OPENAI_API_KEY is set
    genArgs,      \* generatePresentation: content and slideCount
    genPc,        \* generatePresentation: where the call is
    wire,         \* generatePresentation: requests sent and answers received
    geminiError,  \* generatePresentation: the message of geminiError
    genResult,    \* generatePresentation: what the call returned or threw
    webPage,      \* scrapeUrl: the document the fetch gave
    scrapedData,  \* scrapeUrl: what it returned
    pageSlides,   \* scrapedToBasicSlides: slideCount
    pageDeck,     \* scrapedToBasicSlides: the deck returned, or the refusal
    batchPc,      \* fetchImagesForSlides: where the call is
    batchSlides,  \* fetchImagesForSlides: slides
    batchNext,    \* fetchImagesForSlides: the slide slides.map comes to next
    batchCalls,   \* fetchImagesForSlides: the calls of fetchImageForSlide made
    batchPromises, \* fetchImagesForSlides: imagePromises
    batchOrder,   \* fetchImagesForSlides: the order the promises were fulfilled in
    batchResult,  \* fetchImagesForSlides: what the promise it returned gave
    collection,   \* the Presentation collection: the documents stored
    userLists,    \* the presentations array of each User document
    createdBy,    \* the user each _id was created under, by _id
    inflight,     \* the requests received and not yet answered
    arrived,      \* the number of requests received so far
    served,       \* the responses sent
    lastStep      \* the request that took the last step

imageVars == <<imgKeyword, imgResult, imageLog>>
layoutVars == <<layArgs, layResult>>
renderVars == <<renderDeck, renderTheme, renderPc, renderIndex, downloads, pptx>>
textVars == <<txtArgs, txtResult>>
cleanVars == <<clnArg, clnResult>>
handlerVars == <<req, handlerPc, reqSlides, calls, presentation, stored, res>>
parseVars == <<aiDoc, aiWrapper, aiText, parseResult>>
generateVars == <<openaiKey, genArgs, genPc, wire, geminiError, genResult>>
pageVars == <<webPage, scrapedData, pageSlides, pageDeck>>
batchVars == <<batchPc, batchSlides, batchNext, batchCalls, batchPromises, batchOrder, batchResult>>
storeVars == <<collection, userLists, createdBy, inflight, arrived, served, lastStep>>
vars == <<imageVars, layoutVars, renderVars, textVars, cleanVars, handlerVars, parseVars, generateVars, pageVars, batchVars, storeVars>>

notImage == <<layoutVars, renderVars, textVars, cleanVars, handlerVars,
    parseVars, generateVars, pageVars, batchVars, storeVars>>
notLayout == <<imageVars, renderVars, textVars, cleanVars, handlerVars,
    parseVars, generateVars, pageVars, batchVars, storeVars>>
notRender == <<imageVars, layoutVars, textVars, cleanVars, handlerVars,
    parseVars, generateVars, pageVars, batchVars, storeVars>>
notText == <<imageVars, layoutVars, renderVars, cleanVars, handlerVars,
    parseVars, generateVars, pageVars, batchVars, storeVars>>
notClean == <<imageVars, layoutVars, renderVars, textVars, handlerVars,
    parseVars, generateVars, pageVars, batchVars, storeVars>>
notHandler == <<imageVars, layoutVars, renderVars, textVars, cleanVars,
    parseVars, generateVars, pageVars, batchVars, storeVars>>
notParse == <<imageVars, layoutVars, renderVars, textVars, cleanVars,
    handlerVars, generateVars, pageVars, batchVars, storeVars>>
notGenerate == <<imageVars, layoutVars, renderVars, textVars, cleanVars,
    handlerVars, parseVars, pageVars, batchVars, storeVars>>
notPage == <<imageVars, layoutVars, renderVars, textVars, cleanVars,
    handlerVars, parseVars, generateVars, batchVars, storeVars>>
notBatch == <<imageVars, layoutVars, renderVars, textVars, cleanVars,
    handlerVars, parseVars, generateVars, pageVars, storeVars>>
notStore == <<imageVars, layoutVars, renderVars, textVars, cleanVars,
    handlerVars, parseVars, generateVars, pageVars, batchVars>>

(***************************************************************************)
(* The components at rest: a specification of one component leaves the     *)
(* others as they are after module load.                                   *)
(***************************************************************************)
\* the call has not returned yet
Pending == [console |-> [line |-> "pending"]]

ImageIdle == imgKeyword = "" /\ imgResult = Pending /\ imageLog = <<>>

LayoutIdle == layArgs = <<>> /\ layResult = <<>>

RenderIdle ==
    /\ renderDeck = <<>>
    /\ renderTheme = ""
    /\ renderPc = "idle"
    /\ renderIndex = 0
    /\ downloads = <<>>
    /\ pptx = <<>>

TextIdle == txtArgs = <<>> /\ txtResult = <<>>

CleanIdle == clnArg = "" /\ clnResult = <<>>

ParseIdle == aiDoc = <<>> /\ aiWrapper = "" /\ aiText = "" /\ parseResult = <<>>

GenerateIdle ==
    /\ openaiKey = FALSE
    /\ genArgs = <<>>
    /\ genPc = "idle"
    /\ wire = <<>>
    /\ geminiError = ""
    /\ genResult = <<>>

PageIdle == webPage = <<>> /\ scrapedData = <<>> /\ pageSlides = 0 /\ pageDeck = <<>>

BatchIdle ==
    /\ batchPc = "idle"
    /\ batchSlides = <<>>
    /\ batchNext = 0
    /\ batchCalls = <<>>
    /\ batchPromises = <<>>
    /\ batchOrder = <<>>
    /\ batchResult = <<>>

StoreIdle ==
    /\ collection = {}
    /\ userLists = <<>>
    /\ createdBy = <<>>
    /\ inflight = {}
    /\ arrived = 0
    /\ served = {}
    /\ lastStep = <<>>

HandlerIdle ==
    /\ req = <<>>
    /\ handlerPc = "idle"
    /\ reqSlides = 0
    /\ calls = <<>>
    /\ presentation = <<>>
    /\ stored = <<>>
    /\ res = <<>>

IdleExceptImage ==
    /\ LayoutIdle
    /\ RenderIdle
    /\ TextIdle
    /\ CleanIdle
    /\ HandlerIdle
    /\ ParseIdle
    /\ GenerateIdle
    /\ PageIdle
    /\ BatchIdle
    /\ StoreIdle
IdleExceptLayout ==
    /\ ImageIdle
    /\ RenderIdle
    /\ TextIdle
    /\ CleanIdle
    /\ HandlerIdle
    /\ ParseIdle
    /\ GenerateIdle
    /\ PageIdle
    /\ BatchIdle
    /\ StoreIdle
IdleExceptRender ==
    /\ ImageIdle
    /\ LayoutIdle
    /\ TextIdle
    /\ CleanIdle
    /\ HandlerIdle
    /\ ParseIdle
    /\ GenerateIdle
    /\ PageIdle
    /\ BatchIdle
    /\ StoreIdle
IdleExceptText ==
    /\ ImageIdle
    /\ LayoutIdle
    /\ RenderIdle
    /\ CleanIdle
    /\ HandlerIdle
    /\ ParseIdle
    /\ GenerateIdle
    /\ PageIdle
    /\ BatchIdle
    /\ StoreIdle
IdleExceptClean ==
    /\ ImageIdle
    /\ LayoutIdle
    /\ RenderIdle
    /\ TextIdle
    /\ HandlerIdle
    /\ ParseIdle
    /\ GenerateIdle
    /\ PageIdle
    /\ BatchIdle
    /\ StoreIdle
IdleExceptHandler ==
    /\ ImageIdle
    /\ LayoutIdle
    /\ RenderIdle
    /\ TextIdle
    /\ CleanIdle
    /\ ParseIdle
    /\ GenerateIdle
    /\ PageIdle
    /\ BatchIdle
    /\ StoreIdle
IdleExceptParse ==
    /\ ImageIdle
    /\ LayoutIdle
    /\ RenderIdle
    /\ TextIdle
    /\ CleanIdle
    /\ HandlerIdle
    /\ GenerateIdle
    /\ PageIdle
    /\ BatchIdle
    /\ StoreIdle
IdleExceptGenerate ==
    /\ ImageIdle
    /\ LayoutIdle
    /\ RenderIdle
    /\ TextIdle
    /\ CleanIdle
    /\ HandlerIdle
    /\ ParseIdle
    /\ PageIdle
    /\ BatchIdle
    /\ StoreIdle
IdleExceptPage ==
    /\ ImageIdle
    /\ LayoutIdle
    /\ RenderIdle
    /\ TextIdle
    /\ CleanIdle
    /\ HandlerIdle
    /\ ParseIdle
    /\ GenerateIdle
    /\ BatchIdle
    /\ StoreIdle
IdleExceptBatch ==
    /\ ImageIdle
    /\ LayoutIdle
    /\ RenderIdle
    /\ TextIdle
    /\ CleanIdle
    /\ HandlerIdle
    /\ ParseIdle
    /\ GenerateIdle
    /\ PageIdle
    /\ StoreIdle
IdleExceptStore ==
    /\ ImageIdle
    /\ LayoutIdle
    /\ RenderIdle
    /\ TextIdle
    /\ CleanIdle
    /\ HandlerIdle
    /\ ParseIdle
    /\ GenerateIdle
    /\ PageIdle
    /\ BatchIdle

(***************************************************************************)
(* Strings                                                                 *)
(***************************************************************************)
Chars(s) == [i \in 1..Len(s) |-> SubSeq(s, i, i)]

LowerCaseLetters == Chars("abcdefghijklmnopqrstuvwxyz")
UpperCaseLetters == Chars("ABCDEFGHIJKLMNOPQRSTUVWXYZ")
DigitChars == Chars("0123456789")

Range(f) == {f[i] : i \in DOMAIN f}

IsLower(c) == c \in Range(LowerCaseLetters)
IsUpper(c) == c \in Range(UpperCaseLetters)
IsDigit(c) == c \in Range(DigitChars)

\* \s of a JavaScript regular expression, and what String.prototype.trim strips
WhiteSpace == {" ", "\t", "\n", "\r", "\f"}
IsSpace(c) == c \in WhiteSpace

IndexIn(c, letters) == CHOOSE i \in DOMAIN letters : letters[i] = c

\* String.prototype.toLowerCase on one character
ToLowerChar(c) == IF IsUpper(c) THEN LowerCaseLetters[IndexIn(c, UpperCaseLetters)] ELSE c

ToLowerCase(cs) == [i \in DOMAIN cs |-> ToLowerChar(cs[i])]

\* String.prototype.charCodeAt for the characters that survive /[^a-zA-Z0-9\s]/g
CharCode(c) ==
    CASE IsLower(c) -> 96 + IndexIn(c, LowerCaseLetters)
      [] IsUpper(c) -> 64 + IndexIn(c, UpperCaseLetters)
      [] IsDigit(c) -> 47 + IndexIn(c, DigitChars)
      [] c = " " -> 32
      [] c = "\t" -> 9
      [] c = "\n" -> 10
      [] c = "\r" -> 13
      [] c = "\f" -> 12
      [] OTHER -> 63

\* the characters of cs that are in the set keep, in order
Filter(cs, keep) == SelectSeq(cs, LAMBDA c : c \in keep)

Indices(cs) == [i \in 1..Len(cs) |-> i]

\* the characters of cs at the indices idxs, in that order
Pick(cs, idxs) == [k \in 1..Len(idxs) |-> cs[idxs[k]]]

\* the character at index i, the empty string when there is none
At(cs, i) == IF i \in 1..Len(cs) THEN cs[i] ELSE ""

\* String.prototype.trim
Trim(cs) ==
    LET solid == SelectSeq(Indices(cs), LAMBDA i : ~IsSpace(cs[i]))
    IN  IF solid = <<>> THEN <<>> ELSE SubSeq(cs, solid[1], solid[Len(solid)])

\* a comparison with === where includes was meant
IncludesExact(cs, key) == cs = key

\* String.prototype.includes
Includes(cs, key) ==
    \E i \in 1..(Len(cs) - Len(key) + 1) : SubSeq(cs, i, i + Len(key) - 1) = key

RECURSIVE Implode(_)
\* back from a sequence of characters to a string
Implode(cs) == IF cs = <<>> THEN "" ELSE Head(cs) \o Implode(Tail(cs))

(***************************************************************************)
(* Image resolution: fetchImageForSlide (backend/config/ai.js)             *)
(***************************************************************************)
Unsplash(id) == "https://images.unsplash.com/photo-" \o id \o "?w=1920&h=1080&fit=crop&q=80"

\* the keyword table, in declaration order (Object.entries order)
imageMapping == <<
    <<"network", Unsplash("1558494949-ef010cbdcc31")>>,
    <<"technology", Unsplash("1518770660439-4636190af475")>>,
    <<"computer", Unsplash("1496181133206-80ce9b88a853")>>,
    <<"data", Unsplash("1551288049-bebda4e38f71")>>,
    <<"server", Unsplash("1558494949-ef010cbdcc31")>>,
    <<"cable", Unsplash("1544197150-b99a580bb7a8")>>,
    <<"fiber", Unsplash("1516044734145-07ca8eef8731")>>,
    <<"wireless", Unsplash("1562408590-e32931084e23")>>,
    <<"signal", Unsplash("1606765962248-7ff407b51667")>>,
    <<"security", Unsplash("1555949963-ff9fe0c870eb")>>,
    <<"cloud", Unsplash("1544197150-b99a580bb7a8")>>,
    <<"internet", Unsplash("1451187580459-43490279c0fa")>>,
    <<"communication", Unsplash("1516321318423-f06f85e504b3")>>,
    <<"digital", Unsplash("1550751827-4bd374c3f58b")>>,
    <<"hardware", Unsplash("1591799264318-7e6ef8ddb7ea")>>,
    <<"infrastructure", Unsplash("1558494949-ef010cbdcc31")>>,
    <<"transmission", Unsplash("1544197150-b99a580bb7a8")>>,
    <<"physical", Unsplash("1558494949-ef010cbdcc31")>>,
    <<"layer", Unsplash("1558494949-ef010cbdcc31")>>,
    <<"protocol", Unsplash("1550751827-4bd374c3f58b")>>,
    <<"business", Unsplash("1507003211169-0a1dd7228f2d")>>,
    <<"team", Unsplash("1522071820081-009f0129c71c")>>,
    <<"challenge", Unsplash("1454165804606-c3d57bc86b40")>>,
    <<"solution", Unsplash("1552664730-d307ca884978")>>,
    <<"future", Unsplash("1451187580459-43490279c0fa")>>,
    <<"innovation", Unsplash("1485827404703-89b55fcc595e")>>,
    <<"ai", Unsplash("1677442136019-21780ecad995")>>,
    <<"machine", Unsplash("1555255707-c07966088b7b")>>,
    <<"education", Unsplash("1503676260728-1c00da094a0b")>>,
    <<"research", Unsplash("1532094349884-543bc11b234d")>> >>

\* the pool of generic images used when no table key matches
fallbackImages == <<
    Unsplash("1558494949-ef010cbdcc31"),
    Unsplash("1518770660439-4636190af475"),
    Unsplash("1544197150-b99a580bb7a8"),
    Unsplash("1451187580459-43490279c0fa"),
    Unsplash("1550751827-4bd374c3f58b"),
    Unsplash("1551288049-bebda4e38f71"),
    Unsplash("1516321318423-f06f85e504b3"),
    Unsplash("1555949963-ff9fe0c870eb") >>

\* what indexing an array outside its bounds gives
Undefined == "undefined"

\* keyword.replace(/[^a-zA-Z0-9\s]/g, '').trim()
CleanKeyword(keyword) ==
    Trim(Filter(Chars(keyword),
                Range(LowerCaseLetters) \cup Range(UpperCaseLetters)
                    \cup Range(DigitChars) \cup WhiteSpace))

(***************************************************************************)
(* The rolling hash.  A JavaScript number is a double: `hash << 5` first   *)
(* converts hash to a 32-bit integer and shifts that, while `- hash` and   *)
(* `+ charCode` are exact integer arithmetic on the unconverted value.    *)
(* The hash is kept as two limbs, value = hi * 2^16 + lo with lo in        *)
(* 0..2^16-1, so that no intermediate value leaves the checker's integers. *)
(***************************************************************************)
Limb == 2^16
HalfLimb == 2^15

\* ToInt32(h) << 5: the low 32 bits of h * 32, read as a signed integer
ShiftLeft5(h) ==
    LET wide == h.lo * 32
        lo == wide % Limb
        hi == ((h.hi % Limb) * 32 + wide \div Limb) % Limb
    IN  [hi |-> IF hi >= HalfLimb THEN hi - Limb ELSE hi, lo |-> lo]

\* ((hash << 5) - hash) + char.charCodeAt(0)
HashStep(h, c) ==
    LET s == ShiftLeft5(h)
        lo == s.lo - h.lo + CharCode(c)
    IN  [hi |-> s.hi - h.hi + lo \div Limb, lo |-> lo % Limb]

RECURSIVE HashTrace(_)
\* Array.prototype.reduce of HashStep over the characters cs, from 0: the
\* accumulator before the first character and after each character
HashTrace(cs) ==
    IF cs = <<>> THEN <<[hi |-> 0, lo |-> 0]>>
    ELSE LET t == HashTrace(SubSeq(cs, 1, Len(cs) - 1))
         IN  Append(t, HashStep(t[Len(t)], cs[Len(cs)]))

\* cleanKeyword.toLowerCase().split('').reduce(..., 0)
KeywordHash(cleanKeyword) ==
    LET t == HashTrace(ToLowerCase(cleanKeyword)) IN t[Len(t)]

IsNegative(h) == h.hi < 0

\* the remainder of -h by 8 for a negative h, of h by 8 otherwise: |h| % 8
AbsRem8(h) == IF IsNegative(h) THEN (8 - (h.lo % 8)) % 8 ELSE h.lo % 8

\* the JavaScript h % 8, which has the sign of h
Rem8(h) == IF IsNegative(h) THEN 0 - AbsRem8(h) ELSE h.lo % 8

\* keywordHash % fallbackImages.length, Math.abs forgotten
FallbackIndexSigned(keywordHash) == Rem8(keywordHash)

\* Math.abs(keywordHash) % fallbackImages.length
FallbackIndex(keywordHash) == AbsRem8(keywordHash)

RECURSIVE FirstMatchFrom(_, _)
\* the for-of loop over Object.entries(imageMapping): the index of the first
\* entry from i on whose key lowerKeyword includes, 0 when the loop ends
FirstMatchFrom(lowerKeyword, i) ==
    IF i > Len(imageMapping) THEN 0
    ELSE IF Includes(lowerKeyword, Chars(imageMapping[i][1])) THEN i
    ELSE FirstMatchFrom(lowerKeyword, i + 1)

\* the loop without its early return: the last matching entry wins
LastMatch(lowerKeyword) ==
    LET M == {i \in DOMAIN imageMapping : Includes(lowerKeyword, Chars(imageMapping[i][1]))}
    IN  IF M = {} THEN 0 ELSE CHOOSE i \in M : \A j \in M : j <= i

FirstMatch(lowerKeyword) == FirstMatchFrom(lowerKeyword, 1)

\* a fallback choice that rotates with the number of calls made so far
fetchImageForSlideRotating(keyword) ==
    LET lowerKeyword == ToLowerCase(CleanKeyword(keyword))
        m == FirstMatch(lowerKeyword)
        index == (FallbackIndex(KeywordHash(CleanKeyword(keyword))) + Len(imageLog))
                     % Len(fallbackImages)
    IN  IF m # 0
        THEN [url |-> imageMapping[m][2],
              console |-> [line |-> "Found mapped image", matched |-> imageMapping[m][1]]]
        ELSE [url |-> fallbackImages[index + 1],
              console |-> [line |-> "Using fallback image", index |-> index]]

\* fetchImageForSlide(keyword): the URL returned and the console line written
fetchImageForSlide(keyword) ==
    LET cleanKeyword == CleanKeyword(keyword)
        keywordHash == KeywordHash(cleanKeyword)
        lowerKeyword == ToLowerCase(cleanKeyword)
        m == FirstMatch(lowerKeyword)
        index == FallbackIndex(keywordHash)
    IN  IF m # 0
        THEN [url |-> imageMapping[m][2],
              console |-> [line |-> "Found mapped image", matched |-> imageMapping[m][1]],
              keywordHash |-> keywordHash]
        ELSE [url |-> IF index \in 0..(Len(fallbackImages) - 1)
                      THEN fallbackImages[index + 1] ELSE Undefined,
              console |-> [line |-> "Using fallback image", index |-> index],
              keywordHash |-> keywordHash]

(***************************************************************************)
(* The keywords the image specifications draw from                         *)
(***************************************************************************)
MaxWords == 3
MaxCalls == 3

Vocabulary == {"fiber", "optic", "cables", "Data", "AI", "quantum", "re-search", "!!!"}

RECURSIVE JoinWords(_)
JoinWords(ws) ==
    IF Len(ws) = 1 THEN ws[1] ELSE ws[1] \o " " \o JoinWords(Tail(ws))

Keywords ==
    {""} \cup {JoinWords(ws) : ws \in UNION {[1..n -> Vocabulary] : n \in 1..MaxWords}}

RepeatKeywords == {"fiber optic cables", "quantum optic", "Zebra crossing!", "", "AI"}


(***************************************************************************)
(* SpecImage: one call of fetchImageForSlide on any keyword                *)
(***************************************************************************)
InitImage ==
    /\ imgKeyword \in Keywords
    /\ imgResult = Pending
    /\ imageLog = <<>>
    /\ IdleExceptImage

ResolveImage ==
    /\ imgResult = Pending
    /\ imgResult' = fetchImageForSlide(imgKeyword)
    /\ UNCHANGED <<imgKeyword, imageLog, notImage>>

NextImage == ResolveImage

SpecImage == InitImage /\ [][NextImage]_vars

(***************************************************************************)
(* SpecImageCalls: a sequence of calls of fetchImageForSlide               *)
(***************************************************************************)
InitImageCalls == ImageIdle /\ IdleExceptImage

CallFetchImage(keyword) ==
    /\ Len(imageLog) < MaxCalls
    /\ imageLog' = Append(imageLog, [keyword |-> keyword, url |-> fetchImageForSlide(keyword).url])
    /\ UNCHANGED <<imgKeyword, imgResult, notImage>>

NextImageCalls == \E keyword \in RepeatKeywords : CallFetchImage(keyword)

SpecImageCalls == InitImageCalls /\ [][NextImageCalls]_vars

(***************************************************************************)
(* Properties of image resolution                                          *)
(***************************************************************************)
ImageReturned == imgResult # Pending

EntryUrl(key) == imageMapping[CHOOSE i \in DOMAIN imageMapping : imageMapping[i][1] = key][2]

\* the table entries whose key is a substring of the cleaned lower-cased keyword
MatchingEntries(keyword) ==
    {i \in DOMAIN imageMapping :
        Includes(ToLowerCase(CleanKeyword(keyword)), Chars(imageMapping[i][1]))}

\* C7 as stated: "fiber optic cables" resolves to the "fiber" entry of the
\* table, not to another entry and not to a hash-selected fallback image.
C7_FiberEntry ==
    (ImageReturned /\ imgKeyword = "fiber optic cables") =>
        /\ imgResult.url = EntryUrl("fiber")
        /\ imgResult.console = [line |-> "Found mapped image", matched |-> "fiber"]

\* C7 amended: "fiber optic cables" resolves to the "cable" entry of the table
\* ("cable" is declared before "fiber" and is a substring too), not to a
\* hash-selected fallback image.
C7_CableEntry ==
    (ImageReturned /\ imgKeyword = "fiber optic cables") =>
        /\ imgResult.url = EntryUrl("cable")
        /\ imgResult.console = [line |-> "Found mapped image", matched |-> "cable"]

C7_Witness ==
    /\ ImageReturned
    /\ imgKeyword = "fiber optic cables"
    /\ {"cable", "fiber"} \subseteq {imageMapping[i][1] : i \in MatchingEntries(imgKeyword)}

\* C8: for every keyword the result is the URL of the first entry, in table
\* declaration order, whose key is a substring of the cleaned lower-cased
\* keyword; the fallback pool is used only when no key is a substring.
C8_FirstMatchWins ==
    ImageReturned =>
        LET M == MatchingEntries(imgKeyword)
        IN  IF M # {}
            THEN \E i \in M :
                    /\ \A j \in M : i <= j
                    /\ imgResult.url = imageMapping[i][2]
                    /\ imgResult.console =
                           [line |-> "Found mapped image", matched |-> imageMapping[i][1]]
            ELSE imgResult.console.line = "Using fallback image"

\* several keys match, and a later matching entry has another URL
C8_Witness ==
    /\ ImageReturned
    /\ imgResult.console.line = "Found mapped image"
    /\ \E j \in MatchingEntries(imgKeyword) : imageMapping[j][2] # imgResult.url

\* C9: fetchImageForSlide always returns a URL; when no key matches, the
\* index |hash| mod poolSize is an integer in 0..poolSize-1 and the result is
\* that member of the fallback pool, never undefined.
C9_AlwaysAUrl ==
    ImageReturned =>
        /\ imgResult.url # Undefined
        /\ imgResult.url \in {imageMapping[i][2] : i \in DOMAIN imageMapping}
                                \cup Range(fallbackImages)
        /\ imgResult.console.line = "Using fallback image" =>
              /\ imgResult.console.index \in 0..(Len(fallbackImages) - 1)
              /\ imgResult.url = fallbackImages[imgResult.console.index + 1]

\* a fallback selection from a negative hash
C9_Witness ==
    /\ ImageReturned
    /\ imgResult.console.line = "Using fallback image"
    /\ IsNegative(imgResult.keywordHash)
    /\ imgResult.console.index # 0

SLIDE_LAYOUTS ==
    [TITLE_FULL_IMAGE |-> "title-full-image",
     SPLIT_LEFT_IMAGE |-> "split-left-image",
     SPLIT_RIGHT_IMAGE |-> "split-right-image",
     FULL_WIDTH_TOP_IMAGE |-> "full-width-top",
     CONCEPT_IMAGE_DOMINANT |-> "concept-dominant",
     GRADIENT_BACKGROUND |-> "gradient-bg",
     SUMMARY_CLEAN |-> "summary-clean"]

\* a property of a JavaScript object that may be absent
Has(obj, field) == field \in DOMAIN obj

\* slideData.imageUrl && slideData.imageUrl.length > 0
HasImage(slideData) == Has(slideData, "imageUrl") /\ Len(slideData.imageUrl) > 0

\* slideData.points?.length || 0
PointCount(slideData) == IF Has(slideData, "points") THEN Len(slideData.points) ELSE 0

\* the concept test with < where <= is meant
determineSlideLayoutStrict(index, totalSlides, slideData) ==
    IF index = 0 THEN SLIDE_LAYOUTS.TITLE_FULL_IMAGE
    ELSE IF index = totalSlides - 1 THEN SLIDE_LAYOUTS.SUMMARY_CLEAN
    ELSE IF HasImage(slideData) /\ PointCount(slideData) < 3
         THEN SLIDE_LAYOUTS.CONCEPT_IMAGE_DOMINANT
    ELSE IF HasImage(slideData)
         THEN IF index % 2 = 0 THEN SLIDE_LAYOUTS.SPLIT_RIGHT_IMAGE
              ELSE SLIDE_LAYOUTS.SPLIT_LEFT_IMAGE
    ELSE SLIDE_LAYOUTS.GRADIENT_BACKGROUND

determineSlideLayout(index, totalSlides, slideData) ==
    LET hasImage == HasImage(slideData)
        pointCount == PointCount(slideData)
    IN  IF index = 0 THEN SLIDE_LAYOUTS.TITLE_FULL_IMAGE
        ELSE IF index = totalSlides - 1 THEN SLIDE_LAYOUTS.SUMMARY_CLEAN
        ELSE IF hasImage /\ pointCount <= 3 THEN SLIDE_LAYOUTS.CONCEPT_IMAGE_DOMINANT
        ELSE IF hasImage
             THEN IF index % 2 = 0 THEN SLIDE_LAYOUTS.SPLIT_RIGHT_IMAGE
                  ELSE SLIDE_LAYOUTS.SPLIT_LEFT_IMAGE
        ELSE SLIDE_LAYOUTS.GRADIENT_BACKGROUND

(***************************************************************************)
(* SpecLayout: one call of determineSlideLayout, and the call with the     *)
(* same index and total on a second slide                                  *)
(***************************************************************************)
MaxTotal == 5
MaxPoints == 5

PointLists(text) == {[i \in 1..n |-> text] : n \in 0..MaxPoints}

LayoutSlides ==
    LET titles == {"Overview", "Details"}
        urls == {"", "https://img/a.png", "https://img/b.jpg"}
        points == PointLists("first") \cup PointLists("second")
    IN       [slideTitle : titles, points : points, imageUrl : urls]
        \cup [slideTitle : titles, points : points]
        \cup [slideTitle : titles, imageUrl : urls]
        \cup [slideTitle : titles]

InitLayout ==
    /\ layArgs \in {a \in [index : 0..(MaxTotal - 1), totalSlides : 1..MaxTotal,
                          slideData : LayoutSlides, other : LayoutSlides] :
                        /\ a.index < a.totalSlides
                        /\ a.other # a.slideData
                        /\ HasImage(a.other) = HasImage(a.slideData)
                        /\ PointCount(a.other) = PointCount(a.slideData)}
    /\ layResult = <<>>
    /\ IdleExceptLayout

SelectLayout ==
    /\ layResult = <<>>
    /\ layResult' = <<determineSlideLayout(layArgs.index, layArgs.totalSlides, layArgs.slideData),
                      determineSlideLayout(layArgs.index, layArgs.totalSlides, layArgs.other)>>
    /\ UNCHANGED <<layArgs, notLayout>>

NextLayout == SelectLayout

SpecLayout == InitLayout /\ [][NextLayout]_vars

\* C1: the layout follows the fixed priority order (first slide, last slide,
\* image with at most 3 points, image by index parity, no image) for every
\* index, total, image presence and point count, and depends on nothing else.
C1_LayoutPriority ==
    layResult # <<>> =>
        LET index == layArgs.index
            last == layArgs.totalSlides - 1
            image == HasImage(layArgs.slideData)
            n == PointCount(layArgs.slideData)
        IN  /\ index = 0 => layResult[1] = "title-full-image"
            /\ (index # 0 /\ index = last) => layResult[1] = "summary-clean"
            /\ (index # 0 /\ index # last /\ image /\ n <= 3) =>
                   layResult[1] = "concept-dominant"
            /\ (index # 0 /\ index # last /\ image /\ n > 3 /\ index % 2 = 0) =>
                   layResult[1] = "split-right-image"
            /\ (index # 0 /\ index # last /\ image /\ n > 3 /\ index % 2 = 1) =>
                   layResult[1] = "split-left-image"
            /\ (index # 0 /\ index # last /\ ~image) => layResult[1] = "gradient-bg"
            /\ layResult[2] = layResult[1]

\* a middle slide with an image and exactly 3 points, and a second slide that
\* differs from it in title, URL or point texts
C1_Witness ==
    /\ layResult # <<>>
    /\ layArgs.index \notin {0, layArgs.totalSlides - 1}
    /\ HasImage(layArgs.slideData)
    /\ PointCount(layArgs.slideData) = 3
    /\ layArgs.other.imageUrl # layArgs.slideData.imageUrl
    /\ layResult[1] = "concept-dominant"

(***************************************************************************)
(* The renderer: generatePowerPoint (backend/utils/urlHandler.js)          *)
(***************************************************************************)
THEMES ==
    [professional |->
        [name |-> "Professional", background |-> [type |-> "gradient", colors |-> <<"F8FAFC", "E2E8F0">>],
         titleColor |-> "1E293B", textColor |-> "475569", accentColor |-> "3B82F6",
         bulletColor |-> "3B82F6", overlayColor |-> "0F172A", secondaryAccent |-> "60A5FA"],
     dark |->
        [name |-> "Dark Mode Pro", background |-> [type |-> "gradient", colors |-> <<"0F0F23", "1A1A3E">>],
         titleColor |-> "FFFFFF", textColor |-> "CBD5E1", accentColor |-> "06B6D4",
         bulletColor |-> "22D3EE", overlayColor |-> "000000", secondaryAccent |-> "67E8F9"],
     modern |->
        [name |-> "Modern Minimal", background |-> [type |-> "gradient", colors |-> <<"FAFAFA", "F5F5F5">>],
         titleColor |-> "18181B", textColor |-> "52525B", accentColor |-> "7C3AED",
         bulletColor |-> "8B5CF6", overlayColor |-> "1E1B4B", secondaryAccent |-> "A78BFA"],
     nature |->
        [name |-> "Nature Fresh", background |-> [type |-> "gradient", colors |-> <<"ECFDF5", "D1FAE5">>],
         titleColor |-> "064E3B", textColor |-> "047857", accentColor |-> "10B981",
         bulletColor |-> "34D399", overlayColor |-> "022C22", secondaryAccent |-> "6EE7B7"],
     corporate |->
        [name |-> "Corporate Elite", background |-> [type |-> "gradient", colors |-> <<"F0F9FF", "E0F2FE">>],
         titleColor |-> "0C4A6E", textColor |-> "0369A1", accentColor |-> "0284C7",
         bulletColor |-> "0EA5E9", overlayColor |-> "082F49", secondaryAccent |-> "38BDF8"],
     sunset |->
        [name |-> "Sunset Vibes", background |-> [type |-> "gradient", colors |-> <<"FFF7ED", "FFEDD5">>],
         titleColor |-> "7C2D12", textColor |-> "9A3412", accentColor |-> "EA580C",
         bulletColor |-> "F97316", overlayColor |-> "431407", secondaryAccent |-> "FB923C"],
     royal |->
        [name |-> "Royal Purple", background |-> [type |-> "gradient", colors |-> <<"FAF5FF", "F3E8FF">>],
         titleColor |-> "581C87", textColor |-> "7E22CE", accentColor |-> "9333EA",
         bulletColor |-> "A855F7", overlayColor |-> "3B0764", secondaryAccent |-> "C084FC"]]

\* the properties every JavaScript object inherits from Object.prototype:
\* THEMES is an object literal, so THEMES[name] finds these too
ObjectPrototypeKeys ==
    {"constructor", "toString", "toLocaleString", "valueOf", "hasOwnProperty",
     "isPrototypeOf", "propertyIsEnumerable", "__proto__"}

\* THEMES[themeName]: an own property, an inherited one (a function or
\* Object.prototype, which has none of a theme's properties), or undefined
ThemeLookup(themeName) ==
    IF themeName \in DOMAIN THEMES THEN THEMES[themeName]
    ELSE IF themeName \in ObjectPrototypeKeys THEN [inherited |-> themeName]
    ELSE Undefined

\* whether THEMES[themeName] is truthy
ThemeFound(themeName) == themeName \in DOMAIN THEMES \cup ObjectPrototypeKeys

\* const theme = THEMES[themeName] || THEMES.professional
ResolveTheme(themeName) ==
    IF ThemeFound(themeName) THEN ThemeLookup(themeName) ELSE THEMES.professional

\* theme.<field>, undefined when the object has no such property
Prop(theme, field) == IF Has(theme, field) THEN theme[field] ELSE Undefined

(***************************************************************************)
(* downloadImageAsBase64(imageUrl), by what the network does               *)
(***************************************************************************)
Null == [null |-> TRUE]

DownloadOutcomes == {"png", "jpeg", "noContentType", "non2xx", "networkError", "timeout"}

\* the try block: [threw |-> TRUE] when fetch rejects, else what it returns
DownloadTry(outcome) ==
    IF outcome \in {"networkError", "timeout"} THEN [threw |-> TRUE]
    ELSE IF outcome = "non2xx" THEN [threw |-> FALSE, value |-> Null]
    ELSE LET contentType == IF outcome = "noContentType" THEN "image/jpeg"
                            ELSE "image/" \o outcome
             imageType == IF contentType = "image/png" THEN "png" ELSE "jpeg"
         IN  [threw |-> FALSE, value |-> [data |-> "base64", type |-> imageType]]

\* try { ... } catch (error) { return null }
downloadImageAsBase64(outcome) ==
    LET r == DownloadTry(outcome)
    IN  IF r.threw THEN [threw |-> FALSE, value |-> Null] ELSE r

(***************************************************************************)
(* Drawing.  A slide is its background and the add* calls made on it; a    *)
(* drawing function gives [threw, slide]: threw is a TypeError raised on   *)
(* reading a property of undefined.                                        *)
(***************************************************************************)
NewSlide == [background |-> "none", ops |-> <<>>]

AddShape(slide, shape, at, color) ==
    [slide EXCEPT !.ops = Append(@, <<"addShape", shape, at, color>>)]

AddText(slide, text, at, color) ==
    [slide EXCEPT !.ops = Append(@, <<"addText", text, at, color>>)]

AddImage(slide, imageData, at) ==
    [slide EXCEPT !.ops = Append(@, <<"addImage", imageData.type, at>>)]

Drawn(slide) == [threw |-> FALSE, slide |-> slide]
Threw(slide) == [threw |-> TRUE, slide |-> slide]

\* theme.background.colors ? theme.background.colors[0] : 'FFFFFF'
BackgroundColor(theme) ==
    IF Has(theme.background, "colors") THEN theme.background.colors[1] ELSE "FFFFFF"

addGradientBackground(slide, theme) ==
    IF ~Has(theme, "background") THEN Threw(slide)
    ELSE IF theme.background.type = "gradient"
    THEN Drawn(AddShape([slide EXCEPT !.background = theme.background.colors[1]],
                        "rect", "0,0,100%,100%", theme.background.colors[2]))
    ELSE Drawn([slide EXCEPT !.background = theme.background])

\* addAccentShapes(slide, theme, 'circle')
addAccentShapes(slide, theme) ==
    AddShape(slide, "ellipse", "11.5,-1,3,3", Prop(theme, "secondaryAccent"))

\* slideData.slideTitle || fallback
SlideTitle(slideData, fallback) ==
    IF Has(slideData, "slideTitle") /\ slideData.slideTitle # "" THEN slideData.slideTitle
    ELSE fallback

HasPoints(slideData) == Has(slideData, "points")

\* slideData.points.map(point => ({ text: point, options: ... }))
Bullets(slide, slideData, kind, at, theme) ==
    IF HasPoints(slideData)
    THEN AddText(slide, <<kind, slideData.points>>, at, Prop(theme, "textColor"))
    ELSE slide

createSplitRightImageSlide(slide, slideData, imageData, theme, index) ==
    IF ~Has(theme, "background") THEN Threw(slide)
    ELSE
    LET s1 == [slide EXCEPT !.background = BackgroundColor(theme)]
        s2 == AddShape(s1, "rect", "0,0,0.1,7.5", theme.accentColor)
        s3 == AddText(s2, SlideTitle(slideData, "Slide " \o ToString(index + 1)),
                      "0.5,0.5,5.5,1.0", theme.titleColor)
        s4 == AddShape(s3, "rect", "0.5,1.5,2.5,0.05", theme.accentColor)
        s5 == Bullets(s4, slideData, "bullet", "0.5,1.8,5.5,5.2", theme)
    IN  IF imageData # Null
        THEN Drawn(AddShape(AddImage(s5, imageData, "6.33,0,7,7.5"),
                            "rect", "6.33,0,1.5,7.5", BackgroundColor(theme)))
        ELSE Drawn(s5)

createSplitLeftImageSlide(slide, slideData, imageData, theme, index) ==
    IF ~Has(theme, "background") THEN Threw(slide)
    ELSE
    LET s1 == [slide EXCEPT !.background = BackgroundColor(theme)]
        s2 == IF imageData # Null
              THEN AddShape(AddImage(s1, imageData, "0,0,7,7.5"),
                            "rect", "5.5,0,1.5,7.5", BackgroundColor(theme))
              ELSE s1
        s3 == AddShape(s2, "rect", "13.23,0,0.1,7.5", theme.accentColor)
        s4 == AddText(s3, SlideTitle(slideData, "Slide " \o ToString(index + 1)),
                      "7.3,0.5,5.5,1.0", theme.titleColor)
        s5 == AddShape(s4, "rect", "7.3,1.5,2.5,0.05", theme.accentColor)
    IN  Drawn(Bullets(s5, slideData, "bullet", "7.3,1.8,5.5,5.2", theme))

createConceptDominantSlide(slide, slideData, imageData, theme, index) ==
    LET bg == IF imageData # Null
              THEN Drawn(AddShape(AddShape(AddImage(slide, imageData, "0,0,13.33,7.5"),
                                           "rect", "0,4.5,13.33,3", Prop(theme, "overlayColor")),
                                  "rect", "0,0,13.33,7.5", "000000"))
              ELSE addGradientBackground(slide, theme)
        s1 == AddText(bg.slide, SlideTitle(slideData, "Slide " \o ToString(index + 1)),
                      "0.8,4.8,11.73,1.2",
                      IF imageData # Null THEN "FFFFFF" ELSE Prop(theme, "titleColor"))
        s2 == IF HasPoints(slideData) /\ Len(slideData.points) > 0
              THEN AddText(s1,
                           <<"dot", SubSeq(slideData.points, 1,
                                           IF Len(slideData.points) < 3
                                           THEN Len(slideData.points) ELSE 3)>>,
                           "0.8,6.0,11.73,1.3",
                           IF imageData # Null THEN "E2E8F0" ELSE Prop(theme, "textColor"))
              ELSE s1
    IN  IF bg.threw THEN bg
        ELSE Drawn(AddShape(s2, "rect", "0.8,4.6,3,0.06", Prop(theme, "accentColor")))

createSummarySlide(slide, slideData, imageData, theme, index, totalSlides) ==
    LET bg == addGradientBackground(slide, theme)
        s1 == AddShape(bg.slide, "ellipse", "10,-1.5,5,5", theme.accentColor)
        s2 == AddShape(s1, "rect", "0,0,0.12,7.5", theme.accentColor)
        s3 == AddText(s2, SlideTitle(slideData, "Summary"), "0.6,0.4,12,1.2", theme.titleColor)
        s4 == AddShape(s3, "rect", "0.6,1.5,3,0.06", theme.accentColor)
        s5 == Bullets(s4, slideData, "number", "0.6,1.9,12,5.0", theme)
    IN  IF bg.threw THEN bg
        ELSE Drawn(AddShape(s5, "rect", "0,7.35,13.33,0.15", theme.accentColor))

createGradientBackgroundSlide(slide, slideData, theme, index) ==
    LET bg == addGradientBackground(slide, theme)
        s1 == AddShape(bg.slide, "rect", "0,0,13.33,0.08", theme.accentColor)
        s2 == AddShape(s1, "ellipse", "10.5,-1,4,4", theme.secondaryAccent)
        s3 == AddText(s2, SlideTitle(slideData, "Slide " \o ToString(index + 1)),
                      "0.5,0.5,12.33,1.0", theme.titleColor)
        s4 == AddShape(s3, "rect", "0.5,1.5,2.5,0.05", theme.accentColor)
        s5 == Bullets(s4, slideData, "bullet", "0.5,1.8,12.33,5.2", theme)
    IN  IF bg.threw THEN bg
        ELSE Drawn(AddShape(s5, "rect", "0,7.35,13.33,0.15", theme.accentColor))

\* the switch on the layout, then the slide number
DrawContentSlide(slide, slideData, imageData, theme, index, totalSlides) ==
    LET layout == determineSlideLayout(index, totalSlides, slideData)
        r == CASE layout = SLIDE_LAYOUTS.SPLIT_RIGHT_IMAGE ->
                      createSplitRightImageSlide(slide, slideData, imageData, theme, index)
               [] layout = SLIDE_LAYOUTS.SPLIT_LEFT_IMAGE ->
                      createSplitLeftImageSlide(slide, slideData, imageData, theme, index)
               [] layout = SLIDE_LAYOUTS.CONCEPT_IMAGE_DOMINANT ->
                      createConceptDominantSlide(slide, slideData, imageData, theme, index)
               [] layout = SLIDE_LAYOUTS.SUMMARY_CLEAN ->
                      createSummarySlide(slide, slideData, imageData, theme, index, totalSlides)
               [] OTHER ->
                      createGradientBackgroundSlide(slide, slideData, theme, index)
    IN  IF r.threw THEN r
        ELSE Drawn(AddText(r.slide, ToString(index + 2), "12.5,7.05,0.6,0.35",
                           Prop(theme, "textColor")))

\* presentationData.title || 'Untitled Presentation'
DeckTitle(presentationData) ==
    IF Has(presentationData, "title") /\ presentationData.title # ""
    THEN presentationData.title ELSE "Untitled Presentation"

\* the title slide, once the download of the first slide's image is settled
DrawTitleSlide(slide, presentationData, titleImageData, theme) ==
    LET bg == IF titleImageData # Null
              THEN Drawn(AddShape(AddShape(AddImage(slide, titleImageData, "0,0,13.33,7.5"),
                                           "rect", "0,0,13.33,7.5", Prop(theme, "overlayColor")),
                                  "rect", "0,4.5,13.33,3", "000000"))
              ELSE LET g == addGradientBackground(slide, theme)
                   IN  IF g.threw THEN g ELSE Drawn(addAccentShapes(g.slide, theme))
        s1 == AddShape(bg.slide, "rect", "4.67,2.8,4,0.06", Prop(theme, "accentColor"))
        s2 == AddText(s1, DeckTitle(presentationData), "0.8,3.0,11.73,1.5",
                      IF titleImageData # Null THEN "FFFFFF" ELSE Prop(theme, "titleColor"))
        s3 == AddText(s2, "date", "0.8,4.8,11.73,0.6",
                      IF titleImageData # Null THEN "E2E8F0" ELSE Prop(theme, "textColor"))
    IN  IF bg.threw THEN bg
        ELSE Drawn(AddShape(s3, "rect", "0,7.35,13.33,0.15", Prop(theme, "accentColor")))

DrawThankYouSlide(slide, theme) ==
    LET bg == addGradientBackground(slide, theme)
        s1 == AddShape(bg.slide, "ellipse", "-2,-2,6,6", theme.accentColor)
        s2 == AddShape(s1, "ellipse", "10,4,5,5", theme.secondaryAccent)
        s3 == AddText(s2, "Thank You!", "0.8,2.5,11.73,1.5", theme.titleColor)
        s4 == AddShape(s3, "rect", "5.17,4.2,3,0.08", theme.accentColor)
        s5 == AddText(s4, "Questions & Discussion", "0.8,4.5,11.73,0.8", theme.textColor)
    IN  IF bg.threw THEN bg
        ELSE Drawn(AddShape(s5, "rect", "0,7.35,13.33,0.15", theme.accentColor))

(***************************************************************************)
(* SpecRender: one call of generatePowerPoint(presentationData, themeName) *)
(***************************************************************************)
MaxSlides == 4

SlideKinds == {"image-few", "image-many", "text-many"}

\* the slide at position i (from 1) of a deck, of the given kind
DeckSlide(i, kind) ==
    LET title == "Topic " \o ToString(i)
        few == <<"one", "two">>
        many == <<"one", "two", "three", "four">>
    IN  CASE kind = "image-few" ->
                [slideTitle |-> title, points |-> few, imageKeyword |-> "fiber",
                 imageUrl |-> "https://img/" \o ToString(i)]
          [] kind = "image-many" ->
                [slideTitle |-> title, points |-> many, imageKeyword |-> "data",
                 imageUrl |-> "https://img/" \o ToString(i)]
          [] OTHER -> [slideTitle |-> title, points |-> many]

Decks ==
    {[title |-> "Deck", slides |-> [i \in DOMAIN kinds |-> DeckSlide(i, kinds[i])]] :
        kinds \in UNION {[1..n -> SlideKinds] : n \in 1..MaxSlides}}

RenderThemes == {"professional", "dark", "nonexistent", "constructor"}

\* no download is made in this step
NoDownload == "none"

InitRender ==
    /\ renderDeck \in Decks
    /\ renderTheme \in RenderThemes
    /\ renderPc = "title"
    /\ renderIndex = 0
    /\ downloads = <<>>
    /\ pptx = <<>>
    /\ IdleExceptRender

\* presentationData.slides?.length || 0
TotalSlides == Len(renderDeck.slides)

\* the download a step makes when wanted, with the outcome the network gives
Download(wanted, outcome) ==
    IF wanted THEN downloadImageAsBase64(outcome) ELSE [threw |-> FALSE, value |-> Null]

\* lines 667-758: the theme, the document, the title slide
TitleSlide(outcome) ==
    LET theme == ResolveTheme(renderTheme)
        wanted == TotalSlides > 0 /\ HasImage(renderDeck.slides[1])
        got == Download(wanted, outcome)
        r == DrawTitleSlide(NewSlide, renderDeck, got.value, theme)
    IN  /\ renderPc = "title"
        /\ (outcome = NoDownload) = ~wanted
        /\ downloads' = IF wanted THEN Append(downloads, got) ELSE downloads
        /\ pptx' = Append(pptx, r.slide)
        /\ renderPc' = IF r.threw THEN "raised" ELSE "content"
        /\ UNCHANGED <<renderDeck, renderTheme, renderIndex, notRender>>

\* lines 764-804: one turn of the loop over presentationData.slides
ContentSlide(outcome) ==
    LET theme == ResolveTheme(renderTheme)
        slideData == renderDeck.slides[renderIndex + 1]
        wanted == HasImage(slideData)
        got == Download(wanted, outcome)
        r == DrawContentSlide(NewSlide, slideData, got.value, theme, renderIndex, TotalSlides)
    IN  /\ renderPc = "content"
        /\ renderIndex < TotalSlides
        /\ (outcome = NoDownload) = ~wanted
        /\ downloads' = IF wanted THEN Append(downloads, got) ELSE downloads
        /\ pptx' = Append(pptx, r.slide)
        /\ renderPc' = IF r.threw THEN "raised" ELSE "content"
        /\ renderIndex' = renderIndex + 1
        /\ UNCHANGED <<renderDeck, renderTheme, notRender>>

\* lines 810-853: the closing slide
ThankYouSlide ==
    LET r == DrawThankYouSlide(NewSlide, ResolveTheme(renderTheme))
    IN  /\ renderPc = "content"
        /\ renderIndex = TotalSlides
        /\ pptx' = Append(pptx, r.slide)
        /\ renderPc' = IF r.threw THEN "raised" ELSE "write"
        /\ UNCHANGED <<renderDeck, renderTheme, renderIndex, downloads, notRender>>

\* lines 856-857: await pptx.write, return the buffer
WriteDocument ==
    /\ renderPc = "write"
    /\ renderPc' = "returned"
    /\ UNCHANGED <<renderDeck, renderTheme, renderIndex, downloads, pptx, notRender>>

NextRender ==
    \/ \E outcome \in DownloadOutcomes \cup {NoDownload} : TitleSlide(outcome)
    \/ \E outcome \in DownloadOutcomes \cup {NoDownload} : ContentSlide(outcome)
    \/ ThankYouSlide
    \/ WriteDocument

SpecRender == InitRender /\ [][NextRender]_vars

(***************************************************************************)
(* Properties of the renderer                                              *)
(***************************************************************************)
RenderFinished == renderPc \in {"returned", "raised"}

HasTextAt(slide, text, regions) ==
    \E k \in DOMAIN slide.ops :
        /\ slide.ops[k][1] = "addText"
        /\ slide.ops[k][3] \in regions
        /\ slide.ops[k][2] = text

IsTitleSlide(slide) == HasTextAt(slide, DeckTitle(renderDeck), {"0.8,3.0,11.73,1.5"})

\* the content slide of the deck slide at index (from 0)
IsContentSlide(slide, index) ==
    /\ HasTextAt(slide, renderDeck.slides[index + 1].slideTitle,
                 {"0.5,0.5,5.5,1.0", "7.3,0.5,5.5,1.0", "0.8,4.8,11.73,1.2",
                  "0.6,0.4,12,1.2", "0.5,0.5,12.33,1.0"})
    /\ HasTextAt(slide, ToString(index + 2), {"12.5,7.05,0.6,0.35"})

IsThankYouSlide(slide, theme) ==
    /\ HasTextAt(slide, "Thank You!", {"0.8,2.5,11.73,1.5"})
    /\ slide.background = theme.background.colors[1]
    /\ slide.ops[1] = <<"addShape", "rect", "0,0,100%,100%", theme.background.colors[2]>>

\* what the call returned is N+2 slides: title, the deck's slides in deck
\* order, the closing slide on the gradient background of the resolved theme
ReturnedDeckShape ==
    /\ renderPc = "returned"
    /\ Len(pptx) = TotalSlides + 2
    /\ IsTitleSlide(pptx[1])
    /\ \A i \in 1..TotalSlides : IsContentSlide(pptx[i + 1], i - 1)
    /\ IsThankYouSlide(pptx[TotalSlides + 2], ResolveTheme(renderTheme))

\* C2: for every deck of N slides (1 <= N <= 20) and every outcome of the
\* image downloads, generatePowerPoint emits exactly N+2 slides: the title
\* slide, one content slide per deck slide in deck order, and the closing
\* "Thank You" slide on the active theme's gradient background.
C2_SlidesEmitted == RenderFinished => ReturnedDeckShape

\* a call raises only under a theme name found on Object.prototype, and what
\* a call returns has the shape C2 states
RaisesOnlyOnInheritedTheme ==
    /\ renderPc = "raised" => renderTheme \in ObjectPrototypeKeys
    /\ renderPc = "returned" => ReturnedDeckShape

ThemeColors(theme) ==
    {theme.background.colors[1], theme.background.colors[2], theme.titleColor,
     theme.textColor, theme.accentColor, theme.bulletColor, theme.overlayColor,
     theme.secondaryAccent}

\* every colour of the slide is the theme's or one of the literals of the code
DrawnWithTheme(slide, theme) ==
    /\ slide.background \in {"none", theme.background.colors[1]}
    /\ \A k \in DOMAIN slide.ops :
          slide.ops[k][1] # "addImage" =>
              slide.ops[k][4] \in ThemeColors(theme) \cup {"FFFFFF", "E2E8F0", "000000"}

\* C3: for every theme name that is not a registered theme name,
\* generatePowerPoint does not raise and renders every slide with the
\* default 'professional' theme.
C3_UnknownThemeIsDefault ==
    (RenderFinished /\ renderTheme \notin DOMAIN THEMES) =>
        /\ renderPc = "returned"
        /\ \A i \in DOMAIN pptx : DrawnWithTheme(pptx[i], THEMES.professional)

\* the part of C3 the code keeps: a name found neither in THEMES nor on
\* Object.prototype renders with the professional theme
UnknownOwnThemeIsDefault ==
    (RenderFinished /\ ~ThemeFound(renderTheme)) =>
        /\ renderPc = "returned"
        /\ \A i \in DOMAIN pptx : DrawnWithTheme(pptx[i], THEMES.professional)

\* C4: image unavailability is never fatal: whatever the downloads give,
\* downloadImageAsBase64 returns a value or null without raising, and
\* generatePowerPoint completes and returns the document with all slides.
C4_ImageFailureNotFatal ==
    /\ \A k \in DOMAIN downloads : ~downloads[k].threw
    /\ RenderFinished => (renderPc = "returned" /\ Len(pptx) = TotalSlides + 2)

(***************************************************************************)
(* Text cleaning: cleanExtractedText (backend/utils/urlHandler.js)         *)
(***************************************************************************)
\* a collapse of every run of newlines to one newline
CollapseNewlinesToOne(cs) ==
    Pick(cs, SelectSeq(Indices(cs), LAMBDA i : ~(cs[i] = "\n" /\ At(cs, i - 1) = "\n")))

\* .replace(/\n{3,}/g, '\n\n'): of a run of newlines the first two stay
CollapseNewlines(cs) ==
    Pick(cs, SelectSeq(Indices(cs),
                       LAMBDA i : ~(cs[i] = "\n" /\ At(cs, i - 1) = "\n" /\ At(cs, i - 2) = "\n")))

Blanks == {" ", "\t"}

\* .replace(/[ \t]+/g, ' '): a run of spaces and tabs becomes one space
CollapseBlanks(cs) ==
    LET kept == Pick(cs, SelectSeq(Indices(cs),
                                   LAMBDA i : cs[i] \notin Blanks \/ At(cs, i - 1) \notin Blanks))
    IN  [k \in DOMAIN kept |-> IF kept[k] \in Blanks THEN " " ELSE kept[k]]

\* \w of a JavaScript regular expression
IsWordChar(c) == IsLower(c) \/ IsUpper(c) \/ IsDigit(c) \/ c = "_"

\* /(\w)-\n(\w)/ matches at index i
HyphenBreakAt(cs, i) ==
    /\ IsWordChar(At(cs, i))
    /\ At(cs, i + 1) = "-"
    /\ At(cs, i + 2) = "\n"
    /\ IsWordChar(At(cs, i + 3))

\* the global replace takes matches from left to right without overlap: two
\* matches can overlap only in the word character they share, three indices
\* apart, so the match at i is taken unless the one at i - 3 was
HyphenBreakTaken(cs, i) ==
    /\ HyphenBreakAt(cs, i)
    /\ LET chain == CHOOSE k \in 0..(i \div 3) :
                        /\ \A m \in 1..k : HyphenBreakAt(cs, i - 3 * m)
                        /\ ~HyphenBreakAt(cs, i - 3 * (k + 1))
       IN  chain % 2 = 0

\* .replace(/(\w)-\n(\w)/g, '$1$2')
JoinHyphenated(cs) ==
    Pick(cs, SelectSeq(Indices(cs),
                       LAMBDA i : ~(HyphenBreakTaken(cs, i - 1) \/ HyphenBreakTaken(cs, i - 2))))

\* .replace(/\f/g, '\n\n')
ReplaceFormFeeds(cs) ==
    LET wide == [k \in 1..(2 * Len(cs)) |->
                    LET c == cs[(k + 1) \div 2]
                    IN  IF c = "\f" THEN "\n" ELSE IF k % 2 = 1 THEN c ELSE ""]
    IN  SelectSeq(wide, LAMBDA c : c # "")

\* String.prototype.split on one separator character
Split(cs, sep) ==
    LET at == SelectSeq(Indices(cs), LAMBDA i : cs[i] = sep)
        from(k) == IF k = 1 THEN 1 ELSE at[k - 1] + 1
        to(k) == IF k = Len(at) + 1 THEN Len(cs) ELSE at[k] - 1
    IN  [k \in 1..(Len(at) + 1) |-> SubSeq(cs, from(k), to(k))]

RECURSIVE Join(_, _)
\* Array.prototype.join
Join(parts, sep) ==
    IF parts = <<>> THEN <<>>
    ELSE IF Len(parts) = 1 THEN parts[1]
    ELSE parts[1] \o <<sep>> \o Join(Tail(parts), sep)

\* .split('\n').map(line => line.trim()).join('\n')
TrimLines(cs) ==
    LET lines == Split(cs, "\n")
    IN  Join([k \in DOMAIN lines |-> Trim(lines[k])], "\n")

cleanExtractedText(text) ==
    IF text = <<>> THEN <<>>
    ELSE Trim(TrimLines(ReplaceFormFeeds(JoinHyphenated(CollapseBlanks(CollapseNewlines(text))))))

(***************************************************************************)
(* The fallback slide builder: textToBasicSlides                           *)
(***************************************************************************)
\* the maximal runs of characters of cs outside the separators: the non-empty
\* parts of a split on runs of separators.  seps: the indices of the
\* characters that belong to a separator.
Runs(cs, seps) ==
    LET first == SelectSeq(Indices(cs), LAMBDA i : i \notin seps /\ (i = 1 \/ (i - 1) \in seps))
        last == SelectSeq(Indices(cs), LAMBDA i : i \notin seps /\ (i = Len(cs) \/ (i + 1) \in seps))
    IN  [k \in DOMAIN first |-> SubSeq(cs, first[k], last[k])]

\* cleanText.split(/\n\n+/).filter(p => p.trim().length > 20): an empty part
\* never passes the filter
Paragraphs(cleanText) ==
    LET seps == {i \in DOMAIN cleanText :
                    /\ cleanText[i] = "\n"
                    /\ "\n" \in {At(cleanText, i - 1), At(cleanText, i + 1)}}
    IN  SelectSeq(Runs(cleanText, seps), LAMBDA p : Len(Trim(p)) > 20)

Terminators == {".", "!", "?"}

\* firstPara.split(/[.!?]/)[0]
FirstSentence(para) ==
    LET ends == SelectSeq(Indices(para), LAMBDA i : para[i] \in Terminators)
    IN  IF ends = <<>> THEN para ELSE SubSeq(para, 1, ends[1] - 1)

\* p.split(/[.!?]+/).filter(s => s.trim().length > 10).slice(0, 5)
Sentences(para) ==
    LET seps == {i \in DOMAIN para : para[i] \in Terminators}
        long == SelectSeq(Runs(para, seps), LAMBDA x : Len(Trim(x)) > 10)
    IN  SubSeq(long, 1, IF Len(long) < 5 THEN Len(long) ELSE 5)

RECURSIVE FlatMapSentences(_)
\* slideParas.flatMap(p => ...)
FlatMapSentences(paras) ==
    IF paras = <<>> THEN <<>> ELSE Sentences(paras[1]) \o FlatMapSentences(Tail(paras))

\* Math.ceil(paragraphs.length / slideCount)
ParagraphsPerSlide(count, slideCount) == (count + slideCount - 1) \div slideCount

\* Array.prototype.slice(from, to) with 0 <= from
Slice(xs, from, to) == SubSeq(xs, from + 1, IF to < Len(xs) THEN to ELSE Len(xs))

\* a loop body that pushes a slide even when the group yields no point
LoopBodyKeepEmpty(st, paragraphs, paragraphsPerSlide) ==
    LET slideParas == SubSeq(paragraphs, st.i + 1,
                             IF st.i + paragraphsPerSlide < Len(paragraphs)
                             THEN st.i + paragraphsPerSlide ELSE Len(paragraphs))
    IN  [i |-> st.i + paragraphsPerSlide,
         slides |-> Append(st.slides, [slideTitle |-> "Section " \o ToString(st.currentSlide),
                                       points |-> <<>>]),
         currentSlide |-> st.currentSlide + 1]

\* one turn of the for loop, from the loop state st = [i, slides, currentSlide]
LoopBody(st, paragraphs, paragraphsPerSlide) ==
    LET slideParas == Slice(paragraphs, st.i, st.i + paragraphsPerSlide)
        firstPara == IF slideParas = <<>> THEN <<>> ELSE slideParas[1]
        firstSentence == FirstSentence(firstPara)
        slideTitle == IF Len(firstSentence) > 10 /\ Len(firstSentence) < 100
                      THEN Implode(Trim(firstSentence))
                      ELSE "Section " \o ToString(st.currentSlide)
        flat == FlatMapSentences(slideParas)
        top == SubSeq(flat, 1, IF Len(flat) < 5 THEN Len(flat) ELSE 5)
        points == [k \in DOMAIN top |-> Implode(Trim(top[k]))]
    IN  [i |-> st.i + paragraphsPerSlide,
         slides |-> IF Len(points) > 0
                    THEN Append(st.slides, [slideTitle |-> slideTitle, points |-> points])
                    ELSE st.slides,
         currentSlide |-> st.currentSlide + 1]

RECURSIVE Loop(_, _, _, _)
\* the loop state after at most turns turns of
\* for (let i = 0; i < paragraphs.length && slides.length < slideCount; i += paragraphsPerSlide)
Loop(turns, paragraphs, paragraphsPerSlide, slideCount) ==
    IF turns = 0 THEN [i |-> 0, slides |-> <<>>, currentSlide |-> 1]
    ELSE LET st == Loop(turns - 1, paragraphs, paragraphsPerSlide, slideCount)
         IN  IF st.i < Len(paragraphs) /\ Len(st.slides) < slideCount
             THEN LoopBody(st, paragraphs, paragraphsPerSlide)
             ELSE st

\* the builder without its "at least one slide" step
textToBasicSlidesBare(text, slideCount) ==
    LET paragraphs == Paragraphs(cleanExtractedText(text))
        paragraphsPerSlide == ParagraphsPerSlide(Len(paragraphs), slideCount)
    IN  [title |-> "Extracted Content",
         slides |-> Loop(Len(paragraphs), paragraphs,
                         paragraphsPerSlide, slideCount).slides]

textToBasicSlides(text, slideCount) ==
    LET cleanText == cleanExtractedText(text)
        paragraphs == Paragraphs(cleanText)
        paragraphsPerSlide == ParagraphsPerSlide(Len(paragraphs), slideCount)
        slides == Loop(Len(paragraphs), paragraphs,
                       paragraphsPerSlide, slideCount).slides
    IN  [title |-> "Extracted Content",
         slides |-> IF Len(slides) = 0
                    THEN <<[slideTitle |-> "Content Overview",
                            points |-> <<Implode(Slice(cleanText, 0, 200)) \o "...">>]>>
                    ELSE slides]

(***************************************************************************)
(* SpecText: one call of textToBasicSlides on a text assembled from        *)
(* paragraph-sized pieces                                                  *)
(***************************************************************************)
\* text.length < 50 is refused by the controller
MinTextLength == 50

\* text.length > 50000 is refused by the controller
MaxTextLength == 50000

\* the controller clamps slideCount into 1..20
MaxSlideCount == 20

MaxPieces == 3
MaxCount == 5

\* two long sentences; a paragraph too short to be retained; a retained
\* paragraph none of whose sentences is long enough to be a point; a paragraph
\* without terminator; a paragraph whose first sentence has 10 characters; a
\* page of extracted text with a hyphenated line break,
\* runs of blanks and a form feed
Pieces ==
    {"Solar power is clean. It is also cheap to install today",
     "Short one.",
     "a. b. c. d. e. f. g. h.",
     "Wind turbines spin fast all day long",
     "Solar wins. It costs little to install panels",
     "Hydro-\nelectric   dams\tstore energy.  \fTidal power is steady and predictable!"}

RECURSIVE JoinPieces(_)
JoinPieces(ps) ==
    IF ps = <<>> THEN ""
    ELSE IF Len(ps) = 1 THEN ps[1]
    ELSE ps[1] \o "\n\n" \o JoinPieces(Tail(ps))

Texts == {JoinPieces(ps) : ps \in UNION {[1..n -> Pieces] : n \in 0..MaxPieces}}

SlideCounts == (1..MaxCount) \cup {MaxSlideCount}

InitText ==
    /\ txtArgs \in [text : Texts, slideCount : SlideCounts]
    /\ txtResult = <<>>
    /\ IdleExceptText

\* presentation = textToBasicSlides(text, slides)
BuildBasicSlides ==
    /\ txtArgs # <<>>
    /\ txtResult = <<>>
    /\ txtResult' = <<textToBasicSlides(Chars(txtArgs.text), txtArgs.slideCount)>>
    /\ UNCHANGED <<txtArgs, notText>>

NextText == BuildBasicSlides

SpecText == InitText /\ [][NextText]_vars

TextReturned == txtArgs # <<>> /\ txtResult # <<>>

BuiltSlides == txtResult[1].slides

RetainedParagraphs == Paragraphs(cleanExtractedText(Chars(txtArgs.text)))

ValidTextInput ==
    /\ Len(txtArgs.text) >= MinTextLength
    /\ Len(txtArgs.text) <= MaxTextLength
    /\ txtArgs.slideCount \in 1..MaxSlideCount

\* C5: for every text of length 50..50000 and every slideCount in 1..20 the
\* deck textToBasicSlides returns has at least 1 and at most slideCount slides
C5_SlideCountBounds ==
    (TextReturned /\ ValidTextInput) =>
        /\ Len(BuiltSlides) >= 1
        /\ Len(BuiltSlides) <= txtArgs.slideCount

\* a valid text with more retained paragraphs than slides asked for, cut off
\* at slideCount slides
C5_Witness ==
    /\ TextReturned /\ ValidTextInput
    /\ txtArgs.slideCount > 1
    /\ Len(RetainedParagraphs) > txtArgs.slideCount
    /\ Len(BuiltSlides) = txtArgs.slideCount

\* C6 as stated: textToBasicSlides produces exactly slideCount slides, and
\* fewer only when fewer than slideCount paragraphs are retained by the filter
C6_ExactUnlessFewParagraphs ==
    TextReturned =>
        \/ Len(BuiltSlides) = txtArgs.slideCount
        \/ /\ Len(BuiltSlides) < txtArgs.slideCount
           /\ Len(RetainedParagraphs) < txtArgs.slideCount

\* the groups of stride consecutive paragraphs, by number
ParagraphGroups(count, stride) ==
    IF count = 0 THEN {} ELSE 0..(((count + stride - 1) \div stride) - 1)

\* the groups with at least one sentence longer than 10 characters
GroupsWithPoints(paragraphs, stride) ==
    LET pointed == {k \in DOMAIN paragraphs : Sentences(paragraphs[k]) # <<>>}
    IN  {g \in ParagraphGroups(Len(paragraphs), stride) :
            \E k \in pointed : k \in (g * stride + 1)..((g + 1) * stride)}

\* C6, amended: textToBasicSlides produces one slide per group of
\* ceil(retained / slideCount) consecutive retained paragraphs that yields a
\* point, never more than slideCount, and the single "Content Overview" slide
\* when no group yields one; it produces slideCount slides only when that
\* many groups yield a point
C6_OneSlidePerGroupWithPoints ==
    TextReturned =>
        LET paragraphs == RetainedParagraphs
            stride == ParagraphsPerSlide(Len(paragraphs), txtArgs.slideCount)
            pointed == GroupsWithPoints(paragraphs, stride)
        IN  /\ Cardinality(ParagraphGroups(Len(paragraphs), stride)) <= txtArgs.slideCount
            /\ IF pointed = {}
               THEN /\ Len(BuiltSlides) = 1
                    /\ BuiltSlides[1].slideTitle = "Content Overview"
               ELSE Len(BuiltSlides) = Cardinality(pointed)

\* slideCount or more paragraphs are retained and yet fewer than slideCount
\* slides are produced
C6_Witness ==
    /\ TextReturned
    /\ txtArgs.slideCount <= MaxSlideCount
    /\ Len(BuiltSlides) < txtArgs.slideCount
    /\ BuiltSlides[1].slideTitle # "Content Overview"
    /\ Len(RetainedParagraphs) >= txtArgs.slideCount

\* the n-th group, in order, among the groups that yield a point
NthGroup(n, pointed) == CHOOSE g \in pointed : Cardinality({h \in pointed : h < g}) = n - 1

\* the title the stated rule gives the n-th produced slide, whose group
\* starts with the paragraph first
StatedTitle(n, first) ==
    LET sentence == FirstSentence(first)
    IN  IF Len(sentence) \in 10..99 THEN Implode(Trim(sentence))
        ELSE "Section " \o ToString(n)

\* C25: the n-th slide textToBasicSlides produces is titled by the first
\* sentence of its group's first paragraph when that sentence has 10 to 99
\* characters, and "Section n" otherwise
C25_TitleRule ==
    (TextReturned /\ ValidTextInput) =>
        LET paragraphs == RetainedParagraphs
            stride == ParagraphsPerSlide(Len(paragraphs), txtArgs.slideCount)
            pointed == GroupsWithPoints(paragraphs, stride)
        IN  IF pointed = {}
            THEN BuiltSlides[1].slideTitle =
                     StatedTitle(1, IF paragraphs = <<>> THEN <<>> ELSE paragraphs[1])
            ELSE \A n \in DOMAIN BuiltSlides :
                     BuiltSlides[n].slideTitle =
                         StatedTitle(n, paragraphs[NthGroup(n, pointed) * stride + 1])

\* what the loop does: the sentence must have 11 to 99 characters, and the
\* number in "Section n" counts the groups, those without a slide included
LoopTitle(group, first) ==
    LET sentence == FirstSentence(first)
    IN  IF Len(sentence) \in 11..99 THEN Implode(Trim(sentence))
        ELSE "Section " \o ToString(group + 1)

\* the titles textToBasicSlides gives
TitlesByLoopRule ==
    TextReturned =>
        LET paragraphs == RetainedParagraphs
            stride == ParagraphsPerSlide(Len(paragraphs), txtArgs.slideCount)
            pointed == GroupsWithPoints(paragraphs, stride)
        IN  IF pointed = {}
            THEN BuiltSlides[1].slideTitle = "Content Overview"
            ELSE \A n \in DOMAIN BuiltSlides :
                     BuiltSlides[n].slideTitle =
                         LoopTitle(NthGroup(n, pointed),
                                   paragraphs[NthGroup(n, pointed) * stride + 1])

\* a first sentence of 10 characters, and the slide titled "Section 1"
TenCharacterSentenceUntitled ==
    /\ TextReturned /\ ValidTextInput
    /\ RetainedParagraphs # <<>>
    /\ Len(FirstSentence(RetainedParagraphs[1])) = 10
    /\ BuiltSlides[1].slideTitle = "Section 1"

\* the second slide produced is titled "Section 3": the second group gave
\* no slide
SectionNumberSkips ==
    /\ TextReturned /\ ValidTextInput
    /\ Len(BuiltSlides) >= 2
    /\ BuiltSlides[2].slideTitle = "Section 3"

(***************************************************************************)
(* SpecClean: one call of cleanExtractedText on every short text over the  *)
(* characters the cleaning distinguishes                                   *)
(***************************************************************************)
MaxCleanLen == 5

\* a word character, the hyphen, and the white space the steps tell apart
CleanAlphabet == {"a", "-", " ", "\n", "\t", "\f", "\r"}

CleanTexts == {Implode(cs) : cs \in UNION {[1..n -> CleanAlphabet] : n \in 0..MaxCleanLen}}

InitClean ==
    /\ clnArg \in CleanTexts
    /\ clnResult = <<>>
    /\ IdleExceptClean

\* const cleanedText = cleanExtractedText(extractedData.text)
CleanText ==
    /\ clnResult = <<>>
    /\ clnResult' = <<Implode(cleanExtractedText(Chars(clnArg)))>>
    /\ UNCHANGED <<clnArg, notClean>>

NextClean == CleanText

SpecClean == InitClean /\ [][NextClean]_vars

TextCleaned == clnResult # <<>>

\* the text has two equal characters c next to each other
HasRepeated(cs, c) == \E i \in 1..(Len(cs) - 1) : cs[i] = c /\ cs[i + 1] = c

\* C11 as stated: a text with no repeated newlines and no repeated spaces is
\* returned unchanged by cleanExtractedText
C11_NoRepeatsUnchanged ==
    (TextCleaned /\ ~HasRepeated(Chars(clnArg), "\n") /\ ~HasRepeated(Chars(clnArg), " "))
        => clnResult[1] = clnArg

\* nothing for any step of the cleaning to change: no run of three newlines,
\* no tab, no two blanks in a row, no word broken by a hyphen at a line end,
\* no form feed, and no white space at either end of a line or of the text
AlreadyClean(cs) ==
    /\ \A i \in DOMAIN cs :
        /\ cs[i] \notin {"\t", "\f"}
        /\ ~(cs[i] = "\n" /\ At(cs, i + 1) = "\n" /\ At(cs, i + 2) = "\n")
        /\ ~(cs[i] = " " /\ At(cs, i + 1) = " ")
        /\ ~(IsSpace(cs[i]) /\ cs[i] # "\n"
                /\ (At(cs, i - 1) \in {"\n", ""} \/ At(cs, i + 1) \in {"\n", ""}))
        /\ ~(cs[i] = "-" /\ IsWordChar(At(cs, i - 1)) /\ At(cs, i + 1) = "\n"
                /\ IsWordChar(At(cs, i + 2)))
    /\ At(cs, 1) # "\n"
    /\ At(cs, Len(cs)) # "\n"

\* C11, amended: cleanExtractedText returns a text unchanged exactly when the
\* text has no run of three or more newlines, no tab, no run of blanks, no
\* hyphenated line break between word characters, no form feed and no white
\* space at the start or end of any line or of the text
C11_UnchangedIffAlreadyClean ==
    TextCleaned => (clnResult[1] = clnArg <=> AlreadyClean(Chars(clnArg)))

\* an already clean text with a paragraph break, a blank and a hyphen comes
\* back as it went in
C11_Witness ==
    /\ TextCleaned
    /\ AlreadyClean(Chars(clnArg))
    /\ HasRepeated(Chars(clnArg), "\n")
    /\ clnResult[1] = clnArg
    /\ Len(clnArg) >= 4

\* no two blanks or tabs in a row, and no line that starts or ends with
\* white space
BlanksSingleAndLinesTrimmed(cs) ==
    \A i \in DOMAIN cs :
        /\ ~(cs[i] \in {" ", "\t"} /\ At(cs, i + 1) \in {" ", "\t"})
        /\ ~(IsSpace(cs[i]) /\ cs[i] # "\n"
                /\ (At(cs, i - 1) \in {"\n", ""} \/ At(cs, i + 1) \in {"\n", ""}))

\* no run of three or more newlines
NoLongNewlineRun(cs) ==
    \A i \in DOMAIN cs : ~(cs[i] = "\n" /\ At(cs, i + 1) = "\n" /\ At(cs, i + 2) = "\n")

\* C28: the text cleanExtractedText returns has no run of three or more
\* newlines, no two consecutive spaces or tabs and no line with leading or
\* trailing white space, and cleaning it again gives the same text
C28_CanonicalOutput ==
    TextCleaned =>
        /\ NoLongNewlineRun(Chars(clnResult[1]))
        /\ BlanksSingleAndLinesTrimmed(Chars(clnResult[1]))
        /\ Implode(cleanExtractedText(Chars(clnResult[1]))) = clnResult[1]

\* what the code gives: blanks are single and lines are trimmed, as the
\* steps that see to them come after every step that could undo them
CleanedBlanksAndLines ==
    TextCleaned => BlanksSingleAndLinesTrimmed(Chars(clnResult[1]))

\* two form feeds between two words come back as four newlines
FormFeedsLeaveFourNewlines ==
    /\ TextCleaned
    /\ clnArg = "a\f\fa"
    /\ clnResult[1] = "a\n\n\n\na"

\* a hyphen before a blank at a line end: the line is trimmed after the
\* joining step, and cleaning the result joins the words
TrimmedHyphenJoinedLater ==
    /\ TextCleaned
    /\ clnArg = "a- \na"
    /\ clnResult[1] = "a-\na"
    /\ Implode(cleanExtractedText(Chars(clnResult[1]))) = "aa"

(***************************************************************************)
(* Slide count validation (backend/controllers/generateController.js)      *)
(***************************************************************************)
\* String.prototype.trimStart, as parseInt skips leading white space
TrimStart(cs) ==
    LET solid == SelectSeq(Indices(cs), LAMBDA i : ~IsSpace(cs[i]))
    IN  IF solid = <<>> THEN <<>> ELSE SubSeq(cs, solid[1], Len(cs))

HexDigits == Chars("0123456789abcdef")

DigitValue(c) == IndexIn(ToLowerChar(c), HexDigits) - 1

IsRadixDigit(c, radix) == ToLowerChar(c) \in Range(HexDigits) /\ DigitValue(c) < radix

NaN == [nan |-> TRUE]

Number(n) == [nan |-> FALSE, value |-> n]

RECURSIVE DigitsValue(_, _)
DigitsValue(ds, radix) ==
    IF ds = <<>> THEN 0
    ELSE DigitsValue(SubSeq(ds, 1, Len(ds) - 1), radix) * radix + DigitValue(ds[Len(ds)])

\* the longest prefix of cs made of digits of the radix
LeadingDigits(cs, radix) ==
    LET stop == SelectSeq(Indices(cs), LAMBDA i : ~IsRadixDigit(cs[i], radix))
    IN  IF stop = <<>> THEN cs ELSE SubSeq(cs, 1, stop[1] - 1)

\* parseInt(string): white space, a sign, 0x and hexadecimal digits or decimal
\* digits, and whatever follows is ignored
ParseInt(cs) ==
    LET s == TrimStart(cs)
        signed == At(s, 1) \in {"+", "-"}
        unsigned == IF signed THEN Tail(s) ELSE s
        hex == At(unsigned, 1) = "0" /\ At(unsigned, 2) \in {"x", "X"}
        digits == IF hex THEN LeadingDigits(SubSeq(unsigned, 3, Len(unsigned)), 16)
                  ELSE LeadingDigits(unsigned, 10)
        magnitude == DigitsValue(digits, IF hex THEN 16 ELSE 10)
    IN  IF digits = <<>> THEN NaN
        ELSE Number(IF At(s, 1) = "-" THEN 0 - magnitude ELSE magnitude)

Max(a, b) == IF a > b THEN a ELSE b
Min(a, b) == IF a < b THEN a ELSE b

\* a field of the request body left out
Absent == [given |-> FALSE]

\* a field of the request body, by the string String(value) gives
Given(string) == [given |-> TRUE, string |-> string]

\* a clamp that forgets the lower limit
ClampSlideCountAbove(slideCount) ==
    LET parsed == ParseInt(Chars(IF slideCount.given THEN slideCount.string ELSE "5"))
    IN  Min(IF parsed.nan \/ parsed.value = 0 THEN 5 ELSE parsed.value, 20)

\* const { slideCount = 5 } = req.body;
\* Math.min(Math.max(parseInt(slideCount) || 5, 1), 20)
ClampSlideCount(slideCount) ==
    LET parsed == ParseInt(Chars(IF slideCount.given THEN slideCount.string ELSE "5"))
    IN  Min(Max(IF parsed.nan \/ parsed.value = 0 THEN 5 ELSE parsed.value, 1), 20)

\* const { enhance = true } = req.body; enhance === 'true' || enhance === true
EnhanceWithAI(enhance) == ~enhance.given \/ enhance.string = "true"

(***************************************************************************)
(* Page scraping: scrapeUrl (backend/utils/urlHandler.js)                  *)
(***************************************************************************)
SpecialSchemes == {"http", "https", "ftp", "ws", "wss"}

\* new URL(url): [ok |-> FALSE] when it throws, else the protocol.  A URL has
\* a scheme (a letter, then letters, digits, +, - or .) before its first
\* colon, and a special scheme needs a host.
ParseURL(url) ==
    LET cs == Trim(url)
        colons == SelectSeq(Indices(cs), LAMBDA i : cs[i] = ":")
        colon == IF colons = <<>> THEN 0 ELSE colons[1]
        scheme == ToLowerCase(SubSeq(cs, 1, colon - 1))
        rest == SubSeq(cs, colon + 1, Len(cs))
        host == SelectSeq(rest, LAMBDA c : c \notin {"/", "\\"})
        wellFormed ==
            /\ colon > 1
            /\ IsLower(scheme[1])
            /\ \A i \in DOMAIN scheme :
                   IsLower(scheme[i]) \/ IsDigit(scheme[i]) \/ scheme[i] \in {"+", "-", "."}
            /\ Implode(scheme) \in SpecialSchemes => host # <<>>
    IN  IF wellFormed THEN [ok |-> TRUE, protocol |-> Implode(scheme) \o ":"]
        ELSE [ok |-> FALSE]

\* no response came with the error
NoStatus == 0

\* what axios.get(url, ...) can give: a rejection with an error carrying a
\* code and perhaps the response's status, or a page
FetchOutcomes ==
    {"ENOTFOUND", "ETIMEDOUT", "ECONNABORTED", "ECONNRESET",
     "status403", "status404", "status500", "page", "thinPage"}

AxiosError(outcome) ==
    CASE outcome = "ENOTFOUND" ->
            [code |-> "ENOTFOUND", status |-> NoStatus,
             message |-> "getaddrinfo ENOTFOUND example.com"]
      [] outcome = "ETIMEDOUT" ->
            [code |-> "ETIMEDOUT", status |-> NoStatus, message |-> "connect ETIMEDOUT"]
      [] outcome = "ECONNABORTED" ->
            [code |-> "ECONNABORTED", status |-> NoStatus,
             message |-> "timeout of 15000ms exceeded"]
      [] outcome = "ECONNRESET" ->
            [code |-> "ECONNRESET", status |-> NoStatus, message |-> "socket hang up"]
      [] outcome = "status403" ->
            [code |-> "ERR_BAD_REQUEST", status |-> 403,
             message |-> "Request failed with status code 403"]
      [] outcome = "status404" ->
            [code |-> "ERR_BAD_REQUEST", status |-> 404,
             message |-> "Request failed with status code 404"]
      [] outcome = "status500" ->
            [code |-> "ERR_BAD_RESPONSE", status |-> 500,
             message |-> "Request failed with status code 500"]

\* an error thrown inside the try block by the code itself: no code, no response
PlainError(message) == [code |-> "", status |-> NoStatus, message |-> message]

\* the scraped data, by the length of its cleaned content
ScrapedPage(outcome) ==
    [success |-> TRUE, title |-> "Example Page", description |-> "",
     contentLength |-> IF outcome = "page" THEN 1200 ELSE 12]

\* a catch block that knows only one of the two timeout codes
scrapeUrlCatchOneTimeout(error) ==
    IF error.code = "ENOTFOUND" THEN "Website not found. Please check the URL."
    ELSE IF error.code = "ETIMEDOUT"
    THEN "Request timed out. The website may be slow or unavailable."
    ELSE IF error.status = 403
    THEN "Access forbidden. The website may be blocking automated requests."
    ELSE IF error.status = 404 THEN "Page not found. Please check the URL."
    ELSE "Failed to scrape URL: " \o error.message

\* the catch block: the message of the error it throws
scrapeUrlCatch(error) ==
    IF error.code = "ENOTFOUND" THEN "Website not found. Please check the URL."
    ELSE IF error.code = "ETIMEDOUT" \/ error.code = "ECONNABORTED"
    THEN "Request timed out. The website may be slow or unavailable."
    ELSE IF error.status = 403
    THEN "Access forbidden. The website may be blocking automated requests."
    ELSE IF error.status = 404 THEN "Page not found. Please check the URL."
    ELSE "Failed to scrape URL: " \o error.message

\* a scrapeUrl that looks at the protocol only once the page is fetched
scrapeUrlFetchFirst(url, outcome) ==
    LET urlObj == ParseURL(Chars(url))
        get == [call |-> "axios.get", url |-> url, gave |-> outcome]
    IN  IF ~urlObj.ok
        THEN [threw |-> TRUE, message |-> scrapeUrlCatch(PlainError("Invalid URL")),
              requests |-> <<>>]
        ELSE IF outcome \notin {"page", "thinPage"}
        THEN [threw |-> TRUE, message |-> scrapeUrlCatch(AxiosError(outcome)),
              requests |-> <<get>>]
        ELSE IF urlObj.protocol \notin {"http:", "https:"}
        THEN [threw |-> TRUE,
              message |-> scrapeUrlCatch(PlainError("Invalid URL protocol. Use HTTP or HTTPS.")),
              requests |-> <<get>>]
        ELSE [threw |-> FALSE, page |-> ScrapedPage(outcome), requests |-> <<get>>]

\* scrapeUrl(url) when the network answers the request, if one is made, with
\* outcome: what it throws or returns, and the requests it issued
scrapeUrl(url, outcome) ==
    LET urlObj == ParseURL(Chars(url))
        get == [call |-> "axios.get", url |-> url, gave |-> outcome]
    IN  IF ~urlObj.ok
        THEN [threw |-> TRUE, message |-> scrapeUrlCatch(PlainError("Invalid URL")),
              requests |-> <<>>]
        ELSE IF urlObj.protocol \notin {"http:", "https:"}
        THEN [threw |-> TRUE,
              message |-> scrapeUrlCatch(PlainError("Invalid URL protocol. Use HTTP or HTTPS.")),
              requests |-> <<>>]
        ELSE IF outcome \notin {"page", "thinPage"}
        THEN [threw |-> TRUE, message |-> scrapeUrlCatch(AxiosError(outcome)),
              requests |-> <<get>>]
        ELSE [threw |-> FALSE, page |-> ScrapedPage(outcome), requests |-> <<get>>]

(***************************************************************************)
(* The generation endpoints: generateFromText, generateFromPDF,            *)
(* generateFromURL, generateFromTopic (generateController.js)              *)
(***************************************************************************)
\* a text of the request, by its length and its length once trimmed
TextOf(length, trimmed) == [given |-> TRUE, length |-> length, trimmed |-> trimmed]

SlideCountValues ==
    {Absent} \cup {Given(v) : v \in {"5", "1", "20", "21", "0", "-3", "2.5", "0.9", "abc", "",
                                    " 7", "12abc", "0x1F", "1e3", "null", "-0"}}

EnhanceValues == {Absent, Given("true"), Given("false")}

TextValues ==
    {Absent, TextOf(0, 0), TextOf(12, 0), TextOf(60, 0), TextOf(49, 49), TextOf(50, 50),
     TextOf(50000, 49000), TextOf(50001, 50001)}

TopicValues == {Absent, TextOf(4, 0), TextOf(2, 2), TextOf(3, 3), TextOf(500, 500), TextOf(501, 501)}

UrlValues ==
    {Absent, Given(""), Given("   "), Given("not a url"), Given("http://"),
     Given("ftp://files.example.com/a.pdf"), Given("https://example.com/page"),
     Given("mailto:team@example.com"), Given("file:///etc/hosts"),
     Given("FTP://files.example.com/"), Given("HTTPS://EXAMPLE.COM/page"),
     Given("htp://example.com/page")}

Requests ==
    [endpoint : {"text"}, text : TextValues, slideCount : SlideCountValues,
     enhance : EnhanceValues, user : BOOLEAN]
    \cup [endpoint : {"pdf"}, file : BOOLEAN, slideCount : SlideCountValues,
          enhance : EnhanceValues, user : BOOLEAN]
    \cup [endpoint : {"url"}, url : UrlValues, slideCount : SlideCountValues,
          enhance : EnhanceValues, user : BOOLEAN]
    \cup [endpoint : {"topic"}, topic : TopicValues, slideCount : SlideCountValues,
          user : BOOLEAN]

InitEndpoints ==
    /\ req \in Requests
    /\ handlerPc = "received"
    /\ reqSlides = 0
    /\ calls = <<>>
    /\ presentation = <<>>
    /\ stored = <<>>
    /\ res = <<>>
    /\ IdleExceptHandler

\* next(new AppError(message, statusCode)), answered by errorHandler
Fail(statusCode, message) ==
    /\ res' = <<[status |-> statusCode, body |-> [success |-> FALSE, message |-> message]]>>
    /\ handlerPc' = "responded"

\* a deck, by the function that built it
DeckBy(builder) == [builtBy |-> builder, slideCount |-> reqSlides]

Call(fn) == [call |-> fn, slideCount |-> reqSlides]

\* the validation of generateFromText without the test of line 30
ValidateTextUnbounded(text) ==
    IF ~text.given \/ text.length = 0 \/ text.trimmed = 0
    THEN "Please provide text content"
    ELSE IF text.length < 50
    THEN "Text content is too short. Please provide at least 50 characters."
    ELSE ""

\* the message of the validation error of generateFromText (lines 22-32),
\* "" when the text passes
ValidateText(text) ==
    IF ~text.given \/ text.length = 0 \/ text.trimmed = 0
    THEN "Please provide text content"
    ELSE IF text.length < 50
    THEN "Text content is too short. Please provide at least 50 characters."
    ELSE IF text.length > 50000
    THEN "Text content is too long. Maximum 50,000 characters allowed."
    ELSE ""

\* generateFromText up to await generatePresentation (lines 19-41)
ReceiveText ==
    /\ handlerPc = "received" /\ req.endpoint = "text"
    /\ IF ValidateText(req.text) # ""
       THEN Fail(400, ValidateText(req.text)) /\ UNCHANGED reqSlides
       ELSE /\ reqSlides' = ClampSlideCount(req.slideCount)
            /\ handlerPc' = "generating"
            /\ UNCHANGED res
    /\ UNCHANGED <<req, calls, presentation, stored, notHandler>>

\* generateFromTopic up to await generatePresentation (lines 244-277)
ReceiveTopic ==
    /\ handlerPc = "received" /\ req.endpoint = "topic"
    /\ IF ~req.topic.given \/ req.topic.length = 0 \/ req.topic.trimmed = 0
       THEN Fail(400, "Please provide a topic") /\ UNCHANGED reqSlides
       ELSE IF req.topic.length < 3
       THEN /\ Fail(400, "Topic is too short. Please provide a more descriptive topic.")
            /\ UNCHANGED reqSlides
       ELSE IF req.topic.length > 500
       THEN /\ Fail(400, "Topic is too long. Maximum 500 characters allowed.")
            /\ UNCHANGED reqSlides
       ELSE /\ reqSlides' = ClampSlideCount(req.slideCount)
            /\ handlerPc' = "generating"
            /\ UNCHANGED res
    /\ UNCHANGED <<req, calls, presentation, stored, notHandler>>

\* generateFromPDF up to await extractTextFromBuffer (lines 79-93)
ReceivePDF ==
    /\ handlerPc = "received" /\ req.endpoint = "pdf"
    /\ IF ~req.file
       THEN Fail(400, "Please upload a PDF file") /\ UNCHANGED reqSlides
       ELSE /\ reqSlides' = ClampSlideCount(req.slideCount)
            /\ handlerPc' = "extracting"
            /\ UNCHANGED res
    /\ UNCHANGED <<req, calls, presentation, stored, notHandler>>

\* generateFromURL up to await scrapeUrl (lines 161-183)
ReceiveURL ==
    /\ handlerPc = "received" /\ req.endpoint = "url"
    /\ IF ~req.url.given \/ Trim(Chars(req.url.string)) = <<>>
       THEN Fail(400, "Please provide a URL") /\ UNCHANGED reqSlides
       ELSE IF ~ParseURL(Chars(req.url.string)).ok
       THEN Fail(400, "Please provide a valid URL") /\ UNCHANGED reqSlides
       ELSE /\ reqSlides' = ClampSlideCount(req.slideCount)
            /\ handlerPc' = "scraping"
            /\ UNCHANGED res
    /\ UNCHANGED <<req, calls, presentation, stored, notHandler>>

\* what the handler does once it holds enough source content (lines 107-119,
\* 194-202): on to the generative service, or the basic slides at once
WithContent(made, builder) ==
    IF EnhanceWithAI(req.enhance)
    THEN /\ handlerPc' = "generating"
         /\ calls' = calls \o made
         /\ UNCHANGED <<presentation, res>>
    ELSE /\ handlerPc' = "saving"
         /\ calls' = calls \o made \o <<Call(builder)>>
         /\ presentation' = <<DeckBy(builder)>>
         /\ UNCHANGED res

PdfOutcomes == {"parseError", "thinText", "text"}

\* generateFromPDF from the extraction to the next await (lines 93-119)
ExtractPDF(outcome) ==
    /\ handlerPc = "extracting"
    /\ LET made == <<[call |-> "extractTextFromBuffer"]>>
       IN  IF outcome = "parseError"
           THEN /\ Fail(400, "Failed to extract text from PDF: Failed to parse PDF: bad XRef entry")
                /\ calls' = calls \o made
                /\ UNCHANGED presentation
           ELSE IF outcome = "thinText"
           THEN /\ Fail(400, "PDF contains insufficient text content")
                /\ calls' = calls \o made
                /\ UNCHANGED presentation
           ELSE WithContent(made, "textToBasicSlides")
    /\ UNCHANGED <<req, reqSlides, stored, notHandler>>

\* generateFromURL from the scrape to the next await (lines 181-202)
ScrapePage(outcome) ==
    /\ handlerPc = "scraping"
    /\ LET scraped == scrapeUrl(req.url.string, outcome)
       IN  IF scraped.threw
           THEN /\ Fail(400, scraped.message)
                /\ calls' = calls \o scraped.requests
                /\ UNCHANGED presentation
           ELSE IF scraped.page.contentLength < 50
           THEN /\ Fail(400, "Could not extract sufficient content from the URL")
                /\ calls' = calls \o scraped.requests
                /\ UNCHANGED presentation
           ELSE WithContent(scraped.requests, "scrapedToBasicSlides")
    /\ UNCHANGED <<req, reqSlides, stored, notHandler>>

\* what await generatePresentation(content, slides) gives the handler
GenerationOutcomes == {"deck", "Gemini API Error: fetch failed",
                       "Gemini API Error: Failed to parse AI response as valid JSON"}

\* the handler around await generatePresentation (lines 39-45, 107-125,
\* 194-208, 275-281)
Generate(outcome) ==
    /\ handlerPc = "generating"
    /\ LET made == <<[call |-> "generatePresentation", slideCount |-> reqSlides,
                       gave |-> outcome]>>
           builder == IF req.endpoint = "pdf" THEN "textToBasicSlides"
                      ELSE "scrapedToBasicSlides"
       IN  IF outcome = "deck"
           THEN /\ calls' = calls \o made
                /\ presentation' = <<DeckBy("generatePresentation")>>
                /\ handlerPc' = "saving"
                /\ UNCHANGED res
           ELSE IF req.endpoint \in {"text", "topic"}
           THEN /\ Fail(500, "Failed to generate presentation: " \o outcome)
                /\ calls' = calls \o made
                /\ UNCHANGED presentation
           ELSE /\ calls' = calls \o made \o <<Call(builder)>>
                /\ presentation' = <<DeckBy(builder)>>
                /\ handlerPc' = "saving"
                /\ UNCHANGED res
    /\ UNCHANGED <<req, reqSlides, stored, notHandler>>

\* aiEnhanced of the stored document
AiEnhanced ==
    CASE req.endpoint = "text" -> IF req.enhance.given THEN req.enhance.string ELSE "true"
      [] req.endpoint = "topic" -> "true"
      [] OTHER -> IF EnhanceWithAI(req.enhance) THEN "true" ELSE "false"

DbOutcomes == {"ok", "error"}

\* the end of every handler: Presentation.create and User.findByIdAndUpdate
\* when the request is authenticated, then res.status(200).json(...)
SaveAndRespond(db) ==
    /\ handlerPc = "saving"
    /\ IF req.user /\ db = "error"
       THEN /\ Fail(500, "buffering timed out")
            /\ calls' = Append(calls, [call |-> "Presentation.create"])
            /\ UNCHANGED stored
       ELSE /\ res' = <<[status |-> 200, body |-> presentation[1]]>>
            /\ handlerPc' = "responded"
            /\ IF req.user
               THEN /\ stored' = Append(stored, [sourceType |-> req.endpoint,
                                                 slides |-> presentation[1],
                                                 aiEnhanced |-> AiEnhanced,
                                                 slideCount |-> reqSlides])
                    /\ calls' = calls \o <<[call |-> "Presentation.create"],
                                           [call |-> "User.findByIdAndUpdate"]>>
               ELSE UNCHANGED <<stored, calls>>
    /\ UNCHANGED <<req, reqSlides, presentation, notHandler>>

NextEndpoints ==
    \/ ReceiveText
    \/ ReceiveTopic
    \/ ReceivePDF
    \/ ReceiveURL
    \/ \E outcome \in PdfOutcomes : ExtractPDF(outcome)
    \/ \E outcome \in FetchOutcomes : ScrapePage(outcome)
    \/ \E outcome \in GenerationOutcomes : Generate(outcome)
    \/ \E db \in DbOutcomes : SaveAndRespond(db)

SpecEndpoints == InitEndpoints /\ [][NextEndpoints]_vars

Responded == handlerPc = "responded" /\ res # <<>>

\* the calls of fn the handler made
CallsOf(fn) == SelectSeq(calls, LAMBDA c : c.call = fn)

\* the outcome of the failed fetch of the page, "" when no fetch failed
FailedFetch ==
    LET gets == CallsOf("axios.get")
    IN  IF gets # <<>> /\ gets[1].gave \notin {"page", "thinPage"} THEN gets[1].gave ELSE ""

\* C12: each fetch failure is answered with the one message of its category
\* (host not found, timed out, blocked, page not found, or the generic message
\* carrying the underlying one); generateFromURL passes that message to the
\* caller, with status 400, and the fetch is made once
C12_FetchFailureMessages ==
    /\ Len(CallsOf("axios.get")) <= 1
    /\ (Responded /\ FailedFetch # "") =>
        /\ res[1].status = 400
        /\ presentation = <<>>
        /\ res[1].body.message =
               CASE FailedFetch = "ENOTFOUND" -> "Website not found. Please check the URL."
                 [] FailedFetch \in {"ETIMEDOUT", "ECONNABORTED"} ->
                        "Request timed out. The website may be slow or unavailable."
                 [] FailedFetch = "status403" ->
                        "Access forbidden. The website may be blocking automated requests."
                 [] FailedFetch = "status404" -> "Page not found. Please check the URL."
                 [] FailedFetch = "status500" ->
                        "Failed to scrape URL: Request failed with status code 500"
                 [] FailedFetch = "ECONNRESET" -> "Failed to scrape URL: socket hang up"

\* the page answered 404 and the caller got "Page not found"
C12_Witness ==
    /\ Responded
    /\ FailedFetch = "status404"
    /\ res[1].status = 400
    /\ res[1].body.message = "Page not found. Please check the URL."

(***************************************************************************)
(* JSON: the values JSON.parse builds and the texts it builds them from.   *)
(* An object is the sequence of its members, in the order of the text.     *)
(***************************************************************************)
JString(string) == [type |-> "string", string |-> string]
JNumber(n) == [type |-> "number", number |-> n]
JBoolean(b) == [type |-> "boolean", boolean |-> b]
JNull == [type |-> "null"]
JArray(elements) == [type |-> "array", elements |-> elements]
JObject(members) == [type |-> "object", members |-> members]
JUndefined == [type |-> "undefined"]

Member(key, value) == [key |-> key, value |-> value]

\* object[key]: the last member of that name, undefined when there is none or
\* when the value is not an object that has members
Get(object, key) ==
    IF object.type # "object" THEN JUndefined
    ELSE LET found == SelectSeq(object.members, LAMBDA m : m.key = key)
         IN  IF found = <<>> THEN JUndefined ELSE found[Len(found)].value

\* !!value
Truthy(value) ==
    CASE value.type = "string" -> value.string # ""
      [] value.type = "number" -> value.number # 0
      [] value.type = "boolean" -> value.boolean
      [] value.type \in {"null", "undefined"} -> FALSE
      [] OTHER -> TRUE

\* Array.isArray(value)
IsArray(value) == value.type = "array"

RECURSIVE Digits(_)
\* String(n) for a natural number
Digits(n) == IF n < 10 THEN ToString(n) ELSE Digits(n \div 10) \o ToString(n % 10)

RECURSIVE Stringify(_), StringifyAll(_, _)
\* the JSON text of a value whose strings need no escape, as the prompt asks
\* the service to send it
Stringify(value) ==
    CASE value.type = "string" -> "\"" \o value.string \o "\""
      [] value.type = "number" ->
            IF value.number < 0 THEN "-" \o Digits(0 - value.number) ELSE Digits(value.number)
      [] value.type = "boolean" -> IF value.boolean THEN "true" ELSE "false"
      [] value.type = "null" -> "null"
      [] value.type = "array" -> "[" \o StringifyAll(value.elements, FALSE) \o "]"
      [] value.type = "object" -> "{" \o StringifyAll(value.members, TRUE) \o "}"

\* the elements or members, separated by a comma and a space
StringifyAll(items, members) ==
    IF items = <<>> THEN ""
    ELSE LET one == IF members
                    THEN "\"" \o items[1].key \o "\": " \o Stringify(items[1].value)
                    ELSE Stringify(items[1])
         IN  IF Len(items) = 1 THEN one ELSE one \o ", " \o StringifyAll(Tail(items), members)

RECURSIVE NextIn(_, _, _), NextNotIn(_, _, _)
\* the first index from i on whose character is in the set, Len(cs) + 1 when
\* there is none
NextIn(cs, i, set) ==
    IF i > Len(cs) THEN Len(cs) + 1
    ELSE IF cs[i] \in set THEN i
    ELSE NextIn(cs, i + 1, set)

\* the first index from i on whose character is not in the set
NextNotIn(cs, i, set) ==
    IF i > Len(cs) THEN Len(cs) + 1
    ELSE IF cs[i] \notin set THEN i
    ELSE NextNotIn(cs, i + 1, set)

\* the white space of the JSON grammar
JsonSpace == {" ", "\t", "\n", "\r"}

\* the characters a JSON string may not hold unescaped, and the escape itself
JsonStringStops == {"\"", "\\", "\n", "\r", "\t", "\f"}

SyntaxError == [ok |-> FALSE]

Parsed(value, next) == [ok |-> TRUE, value |-> value, next |-> next]

\* cs has the characters of the word at index i
HasAt(cs, i, word) == i + Len(word) - 1 <= Len(cs) /\ SubSeq(cs, i, i + Len(word) - 1) = word

\* a string, from its opening quote at i
ParseString(cs, i) ==
    LET stop == NextIn(cs, i + 1, JsonStringStops)
    IN  IF At(cs, stop) = "\"" THEN Parsed(Implode(SubSeq(cs, i + 1, stop - 1)), stop + 1)
        ELSE SyntaxError

\* an integer, from its first character at i
ParseNumber(cs, i) ==
    LET first == IF cs[i] = "-" THEN i + 1 ELSE i
        stop == NextNotIn(cs, first, Range(DigitChars))
        digits == SubSeq(cs, first, stop - 1)
        magnitude == DigitsValue(digits, 10)
    IN  IF digits = <<>> \/ (Len(digits) > 1 /\ digits[1] = "0") THEN SyntaxError
        ELSE Parsed(JNumber(IF cs[i] = "-" THEN 0 - magnitude ELSE magnitude), stop)

RECURSIVE ParseValue(_, _), ParseElements(_, _, _), ParseMembers(_, _, _)
\* the value that starts at or after index i, and the index after it
ParseValue(cs, i) ==
    LET at == NextNotIn(cs, i, JsonSpace)
        c == At(cs, at)
    IN  CASE c = "\"" ->
                LET string == ParseString(cs, at)
                IN  IF string.ok THEN Parsed(JString(string.value), string.next)
                    ELSE SyntaxError
          [] c = "[" ->
                IF At(cs, NextNotIn(cs, at + 1, JsonSpace)) = "]"
                THEN Parsed(JArray(<<>>), NextNotIn(cs, at + 1, JsonSpace) + 1)
                ELSE ParseElements(cs, at + 1, <<>>)
          [] c = "{" ->
                IF At(cs, NextNotIn(cs, at + 1, JsonSpace)) = "}"
                THEN Parsed(JObject(<<>>), NextNotIn(cs, at + 1, JsonSpace) + 1)
                ELSE ParseMembers(cs, at + 1, <<>>)
          [] c = "-" \/ IsDigit(c) -> ParseNumber(cs, at)
          [] HasAt(cs, at, Chars("true")) -> Parsed(JBoolean(TRUE), at + 4)
          [] HasAt(cs, at, Chars("false")) -> Parsed(JBoolean(FALSE), at + 5)
          [] HasAt(cs, at, Chars("null")) -> Parsed(JNull, at + 4)
          [] OTHER -> SyntaxError

\* the elements of an array from index i on, after those of done
ParseElements(cs, i, done) ==
    LET element == ParseValue(cs, i)
    IN  IF ~element.ok THEN SyntaxError
        ELSE LET after == NextNotIn(cs, element.next, JsonSpace)
                 elements == Append(done, element.value)
             IN  IF At(cs, after) = "]" THEN Parsed(JArray(elements), after + 1)
                 ELSE IF At(cs, after) = "," THEN ParseElements(cs, after + 1, elements)
                 ELSE SyntaxError

\* the members of an object from index i on, after those of done
ParseMembers(cs, i, done) ==
    LET at == NextNotIn(cs, i, JsonSpace)
        key == IF At(cs, at) = "\"" THEN ParseString(cs, at) ELSE SyntaxError
        colon == IF key.ok THEN NextNotIn(cs, key.next, JsonSpace) ELSE 0
        value == IF key.ok /\ At(cs, colon) = ":" THEN ParseValue(cs, colon + 1)
                 ELSE SyntaxError
    IN  IF ~value.ok THEN SyntaxError
        ELSE LET after == NextNotIn(cs, value.next, JsonSpace)
                 members == Append(done, Member(key.value, value.value))
             IN  IF At(cs, after) = "}" THEN Parsed(JObject(members), after + 1)
                 ELSE IF At(cs, after) = "," THEN ParseMembers(cs, after + 1, members)
                 ELSE SyntaxError

\* JSON.parse(text): one value and nothing but white space around it
JsonParse(cs) ==
    LET value == ParseValue(cs, 1)
    IN  IF value.ok /\ NextNotIn(cs, value.next, JsonSpace) = Len(cs) + 1 THEN value
        ELSE SyntaxError

(***************************************************************************)
(* Response post-processing: parseAIResponse (backend/config/ai.js)        *)
(***************************************************************************)
\* the backtick; a TLA+ string cannot hold one, so the apostrophe, which no
\* text of the model uses otherwise, stands for it
Tick == "'"

\* the fence of a Markdown code block, and the one tagged json
Fence == Tick \o Tick \o Tick
JsonFence == Fence \o "json"

\* the number of backticks right before index j
TicksBefore(cs, j) ==
    LET others == SelectSeq(SubSeq(Indices(cs), 1, j - 1), LAMBDA k : cs[k] # Tick)
    IN  j - 1 - (IF others = <<>> THEN 0 ELSE others[Len(others)])

\* where /```json/ matches
JsonFenceStarts(cs) == {j \in DOMAIN cs : cs[j] = Tick /\ HasAt(cs, j, Chars(JsonFence))}

\* where the global /```/ matches: from left to right without overlap, so at
\* every third backtick of a run
FenceStarts(cs) ==
    {j \in DOMAIN cs : cs[j] = Tick /\ HasAt(cs, j, Chars(Fence)) /\ TicksBefore(cs, j) % 3 = 0}

\* the text without the matches of the given width that start at starts, and
\* without the newline right after a match: replace(/<fence>\n?/g, '')
StripMatches(cs, starts, width) ==
    Pick(cs, SelectSeq(Indices(cs),
                       LAMBDA i : ~\E j \in starts :
                                      \/ i \in j..(j + width - 1)
                                      \/ i = j + width /\ cs[i] = "\n"))

\* .replace(/```json\n?/g, '')
StripJsonFences(cs) == StripMatches(cs, JsonFenceStarts(cs), 7)

\* .replace(/```\n?/g, '')
StripFences(cs) == StripMatches(cs, FenceStarts(cs), 3)

\* the structure checks on the parsed value: TRUE when one of them throws,
\* the TypeError of a property read on null included
InvalidStructure(parsed) ==
    \/ parsed.type = "null"
    \/ ~Truthy(Get(parsed, "title"))
    \/ ~IsArray(Get(parsed, "slides"))
    \/ \E index \in DOMAIN Get(parsed, "slides").elements :
           LET slide == Get(parsed, "slides").elements[index]
           IN  \/ slide.type = "null"
               \/ ~Truthy(Get(slide, "slideTitle"))
               \/ ~IsArray(Get(slide, "points"))

ParseFailure == [threw |-> TRUE, message |-> "Failed to parse AI response as valid JSON"]

parseAIResponse(responseText) ==
    LET cs == Chars(responseText)
        jsonString == IF Includes(cs, Chars(JsonFence)) THEN StripFences(StripJsonFences(cs))
                      ELSE IF Includes(cs, Chars(Fence)) THEN StripFences(cs)
                      ELSE cs
        parsed == JsonParse(Trim(jsonString))
    IN  IF ~parsed.ok THEN ParseFailure
        ELSE IF InvalidStructure(parsed.value) THEN ParseFailure
        ELSE [threw |-> FALSE, value |-> parsed.value]

(***************************************************************************)
(* SpecParse: one call of parseAIResponse on an answer of the service: a   *)
(* JSON text, perhaps wrapped, or a text that is no JSON                   *)
(***************************************************************************)
MaxDeckSlides == 2

Points(strings) == JArray([i \in DOMAIN strings |-> JString(strings[i])])

\* a slide as the prompt asks for it, image keyword included
GoodSlide ==
    JObject(<<Member("slideTitle", JString("Solar Basics")),
              Member("imageKeyword", JString("solar panels")),
              Member("points", Points(<<"Panels turn light into power", "Costs fell 80%">>))>>)

\* a slide about Markdown, with fences in a point
FencePointSlide ==
    JObject(<<Member("slideTitle", JString("Code Blocks")),
              Member("points", Points(<<"Open with " \o JsonFence \o " and close with "
                                            \o Fence>>))>>)

\* a slide whose title is a fence
FenceTitleSlide ==
    JObject(<<Member("slideTitle", JString(Fence)), Member("points", Points(<<"The fence">>))>>)

SlideShapes ==
    {GoodSlide, FencePointSlide, FenceTitleSlide,
     JObject(<<Member("points", Points(<<"No title">>))>>),
     JObject(<<Member("slideTitle", JString("")), Member("points", Points(<<"Empty title">>))>>),
     JObject(<<Member("slideTitle", JString("No points"))>>),
     JObject(<<Member("slideTitle", JString("Text points")), Member("points", JString("a, b"))>>),
     JNull}

SlidesValues ==
    {JArray(ss) : ss \in UNION {[1..n -> SlideShapes] : n \in 0..MaxDeckSlides}}
    \cup {JString("none"), JObject(<<Member("0", GoodSlide)>>)}

TitleValues == {JString("Solar Energy"), JString(""), JNull}

\* the values the service may put in its answer
AiDocs ==
    {JObject(<<Member("title", title), Member("slides", ss)>>) :
        title \in TitleValues, ss \in SlidesValues}
    \cup {JObject(<<Member("slides", ss)>>) : ss \in SlidesValues}
    \cup {JObject(<<Member("title", JString("Solar Energy"))>>), JNull, JArray(<<GoodSlide>>),
          JString("Solar Energy")}

\* what the service puts around the JSON text: nothing, a code fence with or
\* without the json tag and newlines, white space, or prose
AiWrappers == {"none", "json fence", "fence", "tight json fence", "padded", "prose"}

Wrap(wrapper, text) ==
    CASE wrapper = "none" -> text
      [] wrapper = "json fence" -> JsonFence \o "\n" \o text \o "\n" \o Fence
      [] wrapper = "fence" -> Fence \o "\n" \o text \o "\n" \o Fence \o "\n"
      [] wrapper = "tight json fence" -> JsonFence \o text \o Fence
      [] wrapper = "padded" -> "\n  " \o text \o " \n"
      [] wrapper = "prose" -> "Here is the presentation:\n" \o text

\* answers that are no JSON text at all
AiRefusals == {"", "I cannot help with that.", "{\"title\": \"Solar Energy\", \"slides\": ["}

InitParse ==
    /\ \/ /\ aiDoc \in AiDocs
          /\ aiWrapper \in AiWrappers
          /\ aiText = Wrap(aiWrapper, Stringify(aiDoc))
       \/ /\ aiDoc = JUndefined
          /\ aiWrapper = "none"
          /\ aiText \in AiRefusals
    /\ parseResult = <<>>
    /\ IdleExceptParse

\* let presentation = parseAIResponse(responseText)
ParseResponse ==
    /\ aiDoc # <<>>
    /\ parseResult = <<>>
    /\ parseResult' = <<parseAIResponse(aiText)>>
    /\ UNCHANGED <<aiDoc, aiWrapper, aiText, notParse>>

NextParse == ParseResponse

SpecParse == InitParse /\ [][NextParse]_vars

ParseReturned == parseResult # <<>>

\* a deck with a title, a slides sequence, and in every slide a non-empty
\* slideTitle and a points sequence
ValidDeck(doc) ==
    /\ doc.type = "object"
    /\ Truthy(Get(doc, "title"))
    /\ IsArray(Get(doc, "slides"))
    /\ \A index \in DOMAIN Get(doc, "slides").elements :
           LET slide == Get(doc, "slides").elements[index]
           IN  /\ slide.type = "object"
               /\ Truthy(Get(slide, "slideTitle"))
               /\ IsArray(Get(slide, "points"))

\* what is around the JSON text is a code fence, white space or nothing
StrippableWrapper == aiWrapper # "prose"

\* C13: parseAIResponse accepts a response exactly when, once the code-fence
\* wrapper is stripped, it is the JSON text of a valid deck; it then returns
\* that deck with no field dropped or altered, and it throws in every other
\* case
C13_AcceptsExactlyValidDecks ==
    ParseReturned =>
        IF StrippableWrapper /\ ValidDeck(aiDoc)
        THEN ~parseResult[1].threw /\ parseResult[1].value = aiDoc
        ELSE parseResult[1] = ParseFailure

\* the JSON text of the answer holds a backtick
HoldsTick == aiDoc # JUndefined /\ Includes(Chars(Stringify(aiDoc)), <<Tick>>)

\* the statement of C13 holds for every answer whose JSON text holds no
\* backtick
AcceptsExactlyValidDecksWithoutFences ==
    ParseReturned => (HoldsTick \/ C13_AcceptsExactlyValidDecks)

(***************************************************************************)
(* Generation: fetchImagesForSlides, generateWithGemini,                   *)
(* generateWithOpenAI and generatePresentation (backend/config/ai.js)      *)
(***************************************************************************)
\* String.prototype.trim on a string
TrimString(string) ==
    LET cs == Chars(string)
        solid == SelectSeq(Indices(cs), LAMBDA i : ~IsSpace(cs[i]))
    IN  IF solid = <<>> THEN "" ELSE SubSeq(string, solid[1], solid[Len(solid)])

\* { ...object, key: value }
SetMember(object, key, value) ==
    IF \E i \in DOMAIN object.members : object.members[i].key = key
    THEN JObject([i \in DOMAIN object.members |->
                     IF object.members[i].key = key THEN Member(key, value)
                     ELSE object.members[i]])
    ELSE JObject(Append(object.members, Member(key, value)))

Returns(value) == [threw |-> FALSE, value |-> value]
Throws(message) == [threw |-> TRUE, message |-> message]

\* fetchImagesForSlides(slides): a slide with an imageKeyword gets the
\* imageUrl the keyword resolves to, the other slides are kept; a keyword
\* that is no string has no replace method, and Promise.all rejects
fetchImagesForSlides(slides) ==
    LET keyword(i) == Get(slides[i], "imageKeyword")
    IN  IF \E i \in DOMAIN slides : Truthy(keyword(i)) /\ keyword(i).type # "string"
        THEN Throws("keyword.replace is not a function")
        ELSE Returns([i \in DOMAIN slides |->
                         IF Truthy(keyword(i))
                         THEN SetMember(slides[i], "imageUrl",
                                        JString(fetchImageForSlide(keyword(i).string).url))
                         ELSE slides[i]])

\* presentation.slides = await fetchImagesForSlides(presentation.slides);
\* return presentation
WithSlides(parsed, images) ==
    IF images.threw THEN images
    ELSE Returns(SetMember(parsed, "slides", JArray(images.value)))

\* what follows parseAIResponse in the try block
WithImages(parsed) ==
    IF parsed.threw THEN parsed
    ELSE WithSlides(parsed.value, fetchImagesForSlides(Get(parsed.value, "slides").elements))

\* the try block of generateWithGemini and generateWithOpenAI from the
\* answer of fetch on: the status test, the text of the answer, the parse,
\* the images
ProcessAnswer(answer, requestFailed) ==
    CASE answer.kind = "rejected" -> Throws(answer.text)
      [] answer.kind = "not ok" ->
            Throws(IF answer.text = "" THEN requestFailed ELSE answer.text)
      [] answer.kind = "no text" -> Throws(answer.text)
      [] answer.kind = "text" -> WithImages(parseAIResponse(TrimString(answer.text)))

\* the catch block: throw new Error(`<service> API Error: ${error.message}`)
Rethrown(result, service) ==
    IF result.threw THEN Throws(service \o " API Error: " \o result.message) ELSE result

generateWithGemini(answer) ==
    Rethrown(ProcessAnswer(answer, "Gemini API request failed"), "Gemini")

generateWithOpenAI(answer) ==
    Rethrown(ProcessAnswer(answer, "API request failed"), "OpenAI")

(***************************************************************************)
(* SpecGenerate: one call of generatePresentation, from await to await     *)
(***************************************************************************)
\* a slide as short as the validation allows
ShortSlide == JObject(<<Member("slideTitle", JString("S")), Member("points", JArray(<<>>))>>)

\* a slide whose imageKeyword is a number
NumberKeywordSlide ==
    JObject(<<Member("slideTitle", JString("Solar Basics")), Member("imageKeyword", JNumber(7)),
              Member("points", Points(<<"Costs fell 80%">>))>>)

\* a deck of the given slides
DeckOf(slides) ==
    JObject(<<Member("title", JString("Solar Energy")), Member("slides", JArray(slides))>>)

\* the slide counts of the decks the services answer with
AnswerSizes == {0, 1, 2, MaxSlideCount, MaxSlideCount + 1}

\* the texts a service may answer with: decks of several sizes, a fenced
\* deck, a deck without title, a deck with a bad keyword, a refusal
AnswerTexts ==
    {Stringify(DeckOf([i \in 1..n |-> IF i = 1 THEN GoodSlide ELSE ShortSlide])) :
        n \in AnswerSizes}
    \cup {Wrap("json fence", Stringify(DeckOf(<<GoodSlide, ShortSlide>>))) \o "\n",
          Stringify(JObject(<<Member("slides", JArray(<<GoodSlide>>))>>)),
          Stringify(DeckOf(<<NumberKeywordSlide>>)),
          "I cannot help with that."}

\* what a request to a service may end in: fetch rejects, the status is not
\* ok (with or without a message in the error body), the body has no
\* candidates or choices, or the body holds a text
ServiceAnswers ==
    {[kind |-> "rejected", text |-> "fetch failed"],
     [kind |-> "not ok", text |-> "API key not valid. Please pass a valid API key."],
     [kind |-> "not ok", text |-> ""],
     [kind |-> "no text", text |-> "Cannot read properties of undefined (reading '0')"]}
    \cup {[kind |-> "text", text |-> text] : text \in AnswerTexts}

Request(service) == [service |-> service, event |-> "request"]
Answer(service, answer) == [service |-> service, event |-> "answer", answer |-> answer]

\* an orchestrator that tries OpenAI whether or not its key is set
OpenAIAlways == TRUE

\* if (process.env.OPENAI_API_KEY)
OpenAIAvailable == openaiKey

\* an orchestrator that answers a failure with a deck of its own
SubstituteFallbackDeck(message) == Returns(DeckOf(<<ShortSlide>>))

\* throw geminiError
ThrowGeminiError(message) == Throws(message)

InitGenerate ==
    /\ openaiKey \in BOOLEAN
    /\ genArgs \in [content : {"Solar energy is the fastest-growing source of power."},
                    slideCount : {1, 5, MaxSlideCount}]
    /\ genPc = "called"
    /\ wire = <<>>
    /\ geminiError = ""
    /\ genResult = <<>>
    /\ IdleExceptGenerate

\* generatePresentation calls generateWithGemini, which sends its request
CallGemini ==
    /\ genPc = "called"
    /\ wire' = Append(wire, Request("Gemini"))
    /\ genPc' = "await Gemini"
    /\ UNCHANGED <<openaiKey, genArgs, geminiError, genResult, notGenerate>>

\* the Gemini request settles and generateWithGemini returns or throws
GeminiAnswers(answer) ==
    /\ genPc = "await Gemini"
    /\ wire' = Append(wire, Answer("Gemini", answer))
    /\ \E result \in {generateWithGemini(answer)} :
           IF result.threw
           THEN /\ geminiError' = result.message
                /\ genPc' = "catch"
                /\ UNCHANGED genResult
           ELSE /\ genResult' = <<result>>
                /\ genPc' = "done"
                /\ UNCHANGED geminiError
    /\ UNCHANGED <<openaiKey, genArgs, notGenerate>>

\* catch (geminiError): generateWithOpenAI sends its request when the key is
\* set, geminiError is thrown when it is not
CatchGeminiError ==
    /\ genPc = "catch"
    /\ IF OpenAIAvailable
       THEN /\ wire' = Append(wire, Request("OpenAI"))
            /\ genPc' = "await OpenAI"
            /\ UNCHANGED genResult
       ELSE /\ genResult' = <<ThrowGeminiError(geminiError)>>
            /\ genPc' = "done"
            /\ UNCHANGED wire
    /\ UNCHANGED <<openaiKey, genArgs, geminiError, notGenerate>>

\* the OpenAI request settles and generateWithOpenAI returns or throws
OpenAIAnswers(answer) ==
    /\ genPc = "await OpenAI"
    /\ wire' = Append(wire, Answer("OpenAI", answer))
    /\ genResult' = <<generateWithOpenAI(answer)>>
    /\ genPc' = "done"
    /\ UNCHANGED <<openaiKey, genArgs, geminiError, notGenerate>>

NextGenerate ==
    \/ CallGemini
    \/ \E answer \in ServiceAnswers : GeminiAnswers(answer)
    \/ CatchGeminiError
    \/ \E answer \in ServiceAnswers : OpenAIAnswers(answer)

SpecGenerate == InitGenerate /\ [][NextGenerate]_vars

GenerateDone == genPc = "done"

\* generatePresentation returned a deck
DeckReturned == GenerateDone /\ ~genResult[1].threw

\* the slides of the deck returned
ReturnedSlides == Get(genResult[1].value, "slides").elements

\* C14: every deck generatePresentation returns has at least 1 and at most
\* 20 slides, whatever the service answered
C14_ReturnedDeckSize ==
    DeckReturned => Len(ReturnedSlides) \in 1..MaxSlideCount

\* the answers received so far, in order
AnswersReceived == SelectSeq(wire, LAMBDA m : m.event = "answer")

\* the attempt that got this answer failed: a transport error, a status that
\* is not ok, a body without text, or a text that is no valid deck
AttemptFailed(answer) ==
    answer.kind # "text" \/ parseAIResponse(TrimString(answer.text)).threw

\* the slide without the imageUrl generation adds
WithoutImageUrl(slide) == JObject(SelectSeq(slide.members, LAMBDA m : m.key # "imageUrl"))

\* the deck is the one parsed from the text of the answer, its slides in
\* order and, the imageUrl apart, unchanged
ParsedFromAnswer(deck, answer) ==
    /\ answer.kind = "text"
    /\ LET parsed == parseAIResponse(TrimString(answer.text))
       IN  /\ ~parsed.threw
           /\ Get(deck, "title") = Get(parsed.value, "title")
           /\ LET got == Get(deck, "slides").elements
                  sent == Get(parsed.value, "slides").elements
              IN  /\ Len(got) = Len(sent)
                  /\ \A i \in DOMAIN got : WithoutImageUrl(got[i]) = WithoutImageUrl(sent[i])

\* C15: a deck generatePresentation returns was parsed from the answer of a
\* service, and when every attempt made has failed the call throws
C15_NoFallbackContent ==
    /\ DeckReturned =>
           \E i \in DOMAIN AnswersReceived :
               ParsedFromAnswer(genResult[1].value, AnswersReceived[i].answer)
    /\ (GenerateDone /\ \A i \in DOMAIN AnswersReceived :
                            AttemptFailed(AnswersReceived[i].answer))
           => genResult[1].threw

\* Gemini answered with a text that is no valid deck, no OpenAI key is set,
\* and the call threw the Gemini error
C15_Witness ==
    /\ GenerateDone
    /\ ~openaiKey
    /\ Len(AnswersReceived) = 1
    /\ AnswersReceived[1].answer.kind = "text"
    /\ genResult[1] = Throws("Gemini API Error: Failed to parse AI response as valid JSON")

RequestsSent == SelectSeq(wire, LAMBDA m : m.event = "request")

\* the requests sent and not yet answered
InFlight == Len(RequestsSent) - Len(AnswersReceived)

\* this step sends a request to OpenAI
SendsOpenAIRequest == Len(wire') = Len(wire) + 1 /\ wire'[Len(wire')] = Request("OpenAI")

\* the last thing on the wire is the answer to the Gemini request, and
\* generateWithGemini threw on it
GeminiFailed ==
    /\ Len(wire) = 2
    /\ wire[2].service = "Gemini" /\ wire[2].event = "answer"
    /\ generateWithGemini(wire[2].answer).threw

\* the Gemini request was answered and generateWithGemini returned a deck
GeminiSucceeded ==
    /\ Len(wire) >= 2
    /\ wire[2].service = "Gemini" /\ wire[2].event = "answer"
    /\ ~generateWithGemini(wire[2].answer).threw

\* C20: within one generatePresentation call at most one request is in
\* flight at any time, the request to OpenAI is sent only after the Gemini
\* request or the processing of its answer has failed and only when an
\* OpenAI key is set, and a Gemini request that succeeded is never followed
\* by another request
C20_RequestsSerialized ==
    /\ [](InFlight \in {0, 1})
    /\ [](wire # <<>> => wire[1] = Request("Gemini"))
    /\ [][SendsOpenAIRequest => (GeminiFailed /\ openaiKey)]_vars
    /\ [](GeminiSucceeded => [](Len(RequestsSent) = 1))

\* the Gemini attempt has failed and the request to OpenAI is in flight
C20_Witness ==
    /\ genPc = "await OpenAI"
    /\ openaiKey
    /\ generateWithGemini(wire[2].answer).threw
    /\ wire[3] = Request("OpenAI")
    /\ InFlight = 1

(***************************************************************************)
(* Properties of the generation handlers                                   *)
(***************************************************************************)
\* await generatePresentation threw in this request
GenerationFailed ==
    \E i \in DOMAIN calls : calls[i].call = "generatePresentation" /\ calls[i].gave # "deck"

FallbackBuilders == {"textToBasicSlides", "scrapedToBasicSlides"}

\* the handler built the deck with a fallback builder and answered 200 with
\* it, or built it and could not save it
RecoveredWithFallback ==
    /\ \E i \in DOMAIN calls : calls[i].call \in FallbackBuilders
    /\ presentation # <<>> /\ presentation[1].builtBy \in FallbackBuilders
    /\ \/ res[1].status = 200 /\ res[1].body = presentation[1]
       \/ CallsOf("Presentation.create") # <<>> /\ stored = <<>>

\* C16: on the text, PDF and URL endpoints a failure of generatePresentation
\* is not surfaced: the handler builds the deck with the fallback builder and
\* answers 200 with that deck
C16_FailureRecoveredWithFallback ==
    (Responded /\ req.endpoint \in {"text", "pdf", "url"} /\ GenerationFailed)
        => RecoveredWithFallback

\* the statement of C16 for the PDF and URL endpoints alone
FailureRecoveredOnPdfAndUrl ==
    (Responded /\ req.endpoint \in {"pdf", "url"} /\ GenerationFailed)
        => RecoveredWithFallback

\* the text endpoint answered a failed generation with status 500
TextFailureSurfaced ==
    /\ Responded /\ req.endpoint = "text" /\ GenerationFailed
    /\ res[1].status = 500
    /\ res[1].body.message = "Failed to generate presentation: Gemini API Error: fetch failed"
    /\ presentation = <<>>

\* the calls that were given a slide count: generatePresentation and the
\* fallback builders
CallsWithSlideCount == SelectSeq(calls, LAMBDA c : "slideCount" \in DOMAIN c)

\* C18: whatever the request holds as slideCount, the slide count a handler
\* passes on to generation or to a fallback builder is an integer from 1 to 20
C18_SlideCountPassedOn ==
    \A i \in DOMAIN CallsWithSlideCount :
        CallsWithSlideCount[i].slideCount \in 1..MaxSlideCount

\* a request with slideCount "-3" had 1 passed on, and one with "21" had 20
C18_Witness ==
    /\ CallsWithSlideCount # <<>>
    /\ \/ req.slideCount = Given("-3") /\ CallsWithSlideCount[1].slideCount = 1
       \/ req.slideCount = Given("21") /\ CallsWithSlideCount[1].slideCount = MaxSlideCount

(***************************************************************************)
(* SpecExport: exportToPowerPoint (backend/controllers/                    *)
(* generateController.js) around one call of generatePowerPoint            *)
(***************************************************************************)
\* the slides a client may send
ExportImageSlide ==
    JObject(<<Member("slideTitle", JString("Solar Basics")),
              Member("points", Points(<<"one", "two", "three", "four">>)),
              Member("imageUrl", JString("https://img/1"))>>)

ExportTextSlide ==
    JObject(<<Member("slideTitle", JString("Costs")), Member("points", Points(<<"one", "two">>))>>)

ExportSlides ==
    {ExportImageSlide, ExportTextSlide,
     JObject(<<Member("points", Points(<<"No title">>))>>),
     JObject(<<Member("slideTitle", JString("")), Member("points", Points(<<"Empty title">>))>>),
     JObject(<<Member("slideTitle", JString("No points"))>>)}

\* the longest deck whose slides are drawn from ExportSlides
MaxExportSlides == 2

\* req.body.presentation: decks of a few slides, an empty deck, a deck of 21
\* slides, slides that is no array, a deck without slides, one without title
ExportDecks ==
    {DeckOf(slides) : slides \in UNION {[1..n -> ExportSlides] : n \in 0..MaxExportSlides}}
    \cup {DeckOf([i \in 1..(MaxSlideCount + 1) |-> ExportTextSlide]),
          JObject(<<Member("title", JString("Solar Energy")), Member("slides", JString("none"))>>),
          JObject(<<Member("title", JString("Solar Energy"))>>),
          JObject(<<Member("slides", JArray(<<ExportTextSlide>>))>>),
          JUndefined}

ExportThemes == {Absent, Given("dark"), Given("constructor")}

ExportRequests == [endpoint : {"export"}, presentation : ExportDecks, theme : ExportThemes]

\* the strings of an array of strings
Strings(array) == [i \in DOMAIN array.elements |-> array.elements[i].string]

\* a slide object as the renderer reads it: the properties it has
SlideData(slide) ==
    [key \in {slide.members[i].key : i \in DOMAIN slide.members} |->
        IF key = "points" THEN Strings(Get(slide, key)) ELSE Get(slide, key).string]

\* presentationData as the renderer reads it; the loop over the slides runs
\* only when Array.isArray(presentationData.slides)
PresentationData(deck) ==
    [title |-> Get(deck, "title").string,
     slides |-> IF IsArray(Get(deck, "slides"))
                THEN [i \in DOMAIN Get(deck, "slides").elements |->
                         SlideData(Get(deck, "slides").elements[i])]
                ELSE <<>>]

notExport ==
    <<imageVars, layoutVars, textVars, cleanVars, parseVars, generateVars, pageVars,
      batchVars, storeVars>>

InitExport ==
    /\ req \in ExportRequests
    /\ handlerPc = "received"
    /\ reqSlides = 0
    /\ calls = <<>>
    /\ presentation = <<>>
    /\ stored = <<>>
    /\ res = <<>>
    /\ IdleExceptHandler

\* exportToPowerPoint up to await generatePowerPoint (lines 402-415)
ReceiveExport ==
    /\ handlerPc = "received" /\ req.endpoint = "export"
    /\ IF ~Truthy(req.presentation)
       THEN /\ Fail(400, "Please provide presentation data")
            /\ UNCHANGED <<renderDeck, renderTheme, renderPc>>
       ELSE IF ~Truthy(Get(req.presentation, "title")) \/ ~Truthy(Get(req.presentation, "slides"))
       THEN /\ Fail(400, "Invalid presentation format. Must have title and slides.")
            /\ UNCHANGED <<renderDeck, renderTheme, renderPc>>
       ELSE /\ renderDeck' = PresentationData(req.presentation)
            /\ renderTheme' = IF req.theme.given THEN req.theme.string ELSE "professional"
            /\ renderPc' = "title"
            /\ handlerPc' = "exporting"
            /\ UNCHANGED res
    /\ UNCHANGED <<req, reqSlides, calls, presentation, stored, renderIndex, downloads, pptx,
                   notExport>>

\* generatePowerPoint returned the buffer: headers and res.send (lines 417-425)
SendFile ==
    /\ handlerPc = "exporting" /\ renderPc = "returned"
    /\ res' = <<[status |-> 200, body |-> [file |-> pptx]]>>
    /\ handlerPc' = "responded"
    /\ UNCHANGED <<req, reqSlides, calls, presentation, stored, notHandler>>

\* generatePowerPoint threw: the catch block (lines 426-429)
ExportFailed ==
    /\ handlerPc = "exporting" /\ renderPc = "raised"
    /\ Fail(500, "Failed to export presentation: Cannot read properties of undefined")
    /\ UNCHANGED <<req, reqSlides, calls, presentation, stored, notHandler>>

NextExport ==
    \/ ReceiveExport
    \/ \E outcome \in DownloadOutcomes \cup {NoDownload} : TitleSlide(outcome)
    \/ \E outcome \in DownloadOutcomes \cup {NoDownload} : ContentSlide(outcome)
    \/ ThankYouSlide
    \/ WriteDocument
    \/ SendFile
    \/ ExportFailed

SpecExport == InitExport /\ [][NextExport]_vars

\* the positions, from 0, of the slides that break a Slide invariant: no
\* slideTitle or an empty one, or no points sequence
OffendingSlides(deck) ==
    IF ~IsArray(Get(deck, "slides")) THEN {}
    ELSE {i - 1 : i \in {j \in DOMAIN Get(deck, "slides").elements :
                            LET slide == Get(deck, "slides").elements[j]
                            IN  \/ ~Truthy(Get(slide, "slideTitle"))
                                \/ ~IsArray(Get(slide, "points"))}}

\* the deck sent breaks a SlideDeck invariant
MalformedDeck(deck) ==
    /\ deck # JUndefined
    /\ \/ ~IsArray(Get(deck, "slides"))
       \/ Len(Get(deck, "slides").elements) \notin 1..MaxSlideCount
       \/ OffendingSlides(deck) # {}

\* the message names the slide at this position, counted from 0 or from 1
NamesSlide(message, index) ==
    \/ Includes(Chars(message), Chars(ToString(index)))
    \/ Includes(Chars(message), Chars(ToString(index + 1)))

\* C17: a malformed deck sent to export is rejected before rendering begins:
\* no slide is added to a document, and the answer is one validation error
\* that names the first offending slide
C17_MalformedDeckRejected ==
    (req # <<>> /\ req.endpoint = "export" /\ MalformedDeck(req.presentation)) =>
        /\ pptx = <<>>
        /\ Responded =>
               /\ res[1].status = 400
               /\ \A index \in OffendingSlides(req.presentation) :
                      (\A other \in OffendingSlides(req.presentation) : index <= other)
                          => NamesSlide(res[1].body.message, index)

\* a deck whose second slide has no title was rendered and sent as a file
MalformedDeckExported ==
    /\ Responded
    /\ OffendingSlides(req.presentation) = {1}
    /\ res[1].status = 200
    /\ Len(res[1].body.file) = 4

(***************************************************************************)
(* Properties of rendering when a download fails                           *)
(***************************************************************************)
\* the index of the content slide drawn last
LastDrawn == renderIndex - 1

\* the same slide without its imageUrl
WithoutImage(slideData) == [key \in DOMAIN slideData \ {"imageUrl"} |-> slideData[key]]

\* the content slide drawn last is neither the first nor the last of the
\* deck, has an imageUrl, and its download gave no image
MiddleSlideLostImage ==
    /\ renderPc = "content"
    /\ LastDrawn \in 1..(TotalSlides - 2)
    /\ HasImage(renderDeck.slides[LastDrawn + 1])
    /\ downloads[Len(downloads)].value = Null

\* C19: a content slide, neither first nor last, whose image download fails
\* is drawn with exactly the operations of the same slide without imageUrl,
\* the gradient-background-bullets treatment
C19_FailedImageDemoted ==
    MiddleSlideLostImage =>
        pptx[Len(pptx)] =
            DrawContentSlide(NewSlide, WithoutImage(renderDeck.slides[LastDrawn + 1]), Null,
                             ResolveTheme(renderTheme), LastDrawn, TotalSlides).slide

\* a failed download never stops the render: the slide is drawn by the
\* function of its image layout, called without image data
FailedImageKeepsLayout ==
    MiddleSlideLostImage =>
        /\ Len(pptx) = LastDrawn + 2
        /\ pptx[Len(pptx)] =
               DrawContentSlide(NewSlide, renderDeck.slides[LastDrawn + 1], Null,
                                ResolveTheme(renderTheme), LastDrawn, TotalSlides).slide
        /\ determineSlideLayout(LastDrawn, TotalSlides, renderDeck.slides[LastDrawn + 1])
               \in {SLIDE_LAYOUTS.CONCEPT_IMAGE_DOMINANT, SLIDE_LAYOUTS.SPLIT_RIGHT_IMAGE,
                    SLIDE_LAYOUTS.SPLIT_LEFT_IMAGE}

(***************************************************************************)
(* Properties of what the generation handlers store                        *)
(***************************************************************************)
\* the documents stored by generateFromPDF and generateFromURL
StoredFromPdfOrUrl == SelectSeq(stored, LAMBDA doc : doc.sourceType \in {"pdf", "url"})

\* C26: a presentation stored by generateFromPDF or generateFromURL has
\* aiEnhanced true only if the generative service produced its slides, and
\* false whenever a fallback builder built them, also when the fallback ran
\* because generation failed
C26_AiEnhancedTellsThePath ==
    \A i \in DOMAIN StoredFromPdfOrUrl :
        LET doc == StoredFromPdfOrUrl[i]
        IN  /\ doc.aiEnhanced = "true" => doc.slides.builtBy = "generatePresentation"
            /\ doc.slides.builtBy \in FallbackBuilders => doc.aiEnhanced = "false"

\* the statement of C26 for the requests whose generation did not fail
AiEnhancedTellsThePathUnlessFailed ==
    GenerationFailed \/ C26_AiEnhancedTellsThePath

\* generation failed, the fallback deck was stored, and it says aiEnhanced
FallbackStoredAsEnhanced ==
    /\ Responded /\ req.endpoint = "pdf" /\ GenerationFailed
    /\ Len(stored) = 1
    /\ stored[1].slides.builtBy = "textToBasicSlides"
    /\ stored[1].aiEnhanced = "true"
    /\ res[1].status = 200


\* the text of the request is one the validation of generateFromText refuses:
\* absent, empty, of whitespace only, or of a length outside 50..50000
InvalidText ==
    \/ ~req.text.given
    \/ req.text.length = 0
    \/ req.text.trimmed = 0
    \/ req.text.length < MinTextLength
    \/ req.text.length > MaxTextLength

\* C27: a request of generateFromText with an invalid text is answered 400,
\* the generative service is never invoked and nothing is persisted; a text
\* of 50 to 50000 characters that is not all whitespace passes the
\* validation, i.e. the handler moves on to generatePresentation
C27_InvalidTextRejected ==
    req.endpoint = "text" =>
        /\ InvalidText =>
               /\ CallsOf("generatePresentation") = <<>>
               /\ calls = <<>>
               /\ stored = <<>>
               /\ handlerPc # "received" =>
                      Responded /\ Len(res) = 1 /\ res[1].status = 400
        /\ (~InvalidText /\ handlerPc # "received") =>
               \/ handlerPc = "generating" /\ res = <<>>
               \/ Len(CallsOf("generatePresentation")) = 1

\* a text of 60 blanks was answered 400 'Please provide text content'
C27_Witness ==
    /\ Responded /\ req.endpoint = "text"
    /\ req.text = TextOf(60, 0)
    /\ res[1].status = 400 /\ res[1].body.message = "Please provide text content"
    /\ calls = <<>> /\ stored = <<>>

\* new URL(url) gives a protocol other than http: and https:
OtherScheme(url) ==
    LET urlObj == ParseURL(Chars(url))
    IN  urlObj.ok /\ urlObj.protocol \notin {"http:", "https:"}

\* C22: for a URL whose scheme is neither http nor https scrapeUrl throws,
\* whatever the network would answer, and issues no request: the handler of
\* such a URL never makes a call and answers with the error of scrapeUrl
C22_BadSchemeFailsFast ==
    (req.endpoint = "url" /\ req.url.given /\ OtherScheme(req.url.string)) =>
        /\ CallsOf("axios.get") = <<>>
        /\ calls = <<>>
        /\ handlerPc \in {"received", "scraping", "responded"}
        /\ handlerPc = "scraping" =>
               \A outcome \in FetchOutcomes :
                   /\ scrapeUrl(req.url.string, outcome).threw
                   /\ scrapeUrl(req.url.string, outcome).requests = <<>>
        /\ handlerPc = "responded" =>
               /\ Len(res) = 1 /\ res[1].status = 400
               /\ res[1].body.message =
                      "Failed to scrape URL: Invalid URL protocol. Use HTTP or HTTPS."

\* the handler answered a mailto: URL with the error of scrapeUrl, no request made
C22_Witness ==
    /\ Responded /\ req.endpoint = "url"
    /\ req.url = Given("mailto:team@example.com")
    /\ res[1].body.message = "Failed to scrape URL: Invalid URL protocol. Use HTTP or HTTPS."
    /\ calls = <<>>

(***************************************************************************)
(* The scraped page and its fallback deck: scrapeUrl after the fetch,      *)
(* cleanContent and scrapedToBasicSlides (backend/utils/urlHandler.js)     *)
(***************************************************************************)
\* String.prototype.indexOf: the index from 0 of the first occurrence, or -1
IndexOf(cs, pat) ==
    LET hits == SelectSeq(Indices(cs),
                          LAMBDA i : /\ i + Len(pat) - 1 <= Len(cs)
                                     /\ cs[i] = pat[1]
                                     /\ SubSeq(cs, i, i + Len(pat) - 1) = pat)
    IN  IF hits = <<>> THEN -1 ELSE hits[1] - 1

\* String.prototype.substring: both indices are clamped into 0..length and
\* swapped when the first is the greater
Substring(cs, start, end) ==
    LET a == Max(0, Min(start, Len(cs)))
        b == Max(0, Min(end, Len(cs)))
    IN  SubSeq(cs, Min(a, b) + 1, Max(a, b))

ChromeWords ==
    {Chars(w) : w \in {"cookie", "privacy", "subscribe", "newsletter", "sign up", "log in",
                       "loading"}}

\* /\b(cookie|privacy|subscribe|newsletter|sign up|log in|loading)\b/i
\* matches at index i
ChromeWordAt(cs, i) ==
    /\ ToLowerChar(cs[i]) \in {"c", "p", "s", "n", "l"}
    /\ ~IsWordChar(At(cs, i - 1))
    /\ \E w \in ChromeWords :
           /\ i + Len(w) - 1 <= Len(cs)
           /\ ToLowerCase(SubSeq(cs, i, i + Len(w) - 1)) = w
           /\ ~IsWordChar(At(cs, i + Len(w)))

\* .replace(/\b(cookie|...|loading)\b.*?\n/gi, ''): on a line that a newline
\* ends, everything from the first of the words up to and with the newline
RemoveChrome(cs) ==
    LET words == SelectSeq(Indices(cs), LAMBDA i : ChromeWordAt(cs, i))
        newlines == SelectSeq(Indices(cs), LAMBDA i : cs[i] = "\n")
        removed(i) ==
            /\ \E n \in Range(newlines) : n >= i
            /\ \E k \in Range(words) :
                   k <= i /\ \A n \in Range(newlines) : ~(k <= n /\ n < i)
    IN  Pick(cs, SelectSeq(Indices(cs), LAMBDA i : ~removed(i)))

\* .split('\n').map(line => line.trim()).filter(line => line.length > 0).join('\n')
TrimLinesDropEmpty(cs) ==
    LET lines == Split(cs, "\n")
        trimmed == [k \in DOMAIN lines |-> Trim(lines[k])]
    IN  Join(SelectSeq(trimmed, LAMBDA line : Len(line) > 0), "\n")

\* a cleanContent that leaves the interface text in
cleanContentKeepChrome(content) ==
    IF content = <<>> THEN <<>>
    ELSE Trim(TrimLinesDropEmpty(CollapseNewlines(CollapseBlanks(content))))

cleanContent(content) ==
    IF content = <<>> THEN <<>>
    ELSE Trim(TrimLinesDropEmpty(RemoveChrome(CollapseNewlines(CollapseBlanks(content)))))

RECURSIVE JoinTexts(_)
\* texts.join('\n\n')
JoinTexts(texts) ==
    IF texts = <<>> THEN <<>>
    ELSE IF Len(texts) = 1 THEN texts[1]
    ELSE texts[1] \o <<"\n", "\n">> \o JoinTexts(Tail(texts))

\* the texts of the elements of the page with one of the tags, trimmed
TextsOf(elements, tags) ==
    LET chosen == SelectSeq(elements, LAMBDA el : el.tag \in tags)
    IN  [k \in DOMAIN chosen |-> Trim(Chars(chosen[k].text))]

\* extractTextFromElement($, $('body'))
extractTextFromElement(elements) ==
    JoinTexts(SelectSeq(TextsOf(elements, {"p", "h1", "h2", "h3", "li"}),
                        LAMBDA text : Len(text) > 0))

\* what scrapeUrl makes of the document it fetched (lines 36-97)
ExtractPage(page) ==
    LET firstH1 == TextsOf(page.elements, {"h1"})
        headings == SelectSeq(TextsOf(page.elements, {"h1", "h2", "h3"}),
                              LAMBDA text : Len(text) > 0 /\ Len(text) < 200)
        listItems == SelectSeq(TextsOf(page.elements, {"li"}),
                               LAMBDA text : Len(text) > 10 /\ Len(text) < 500)
    IN  [title |-> IF Trim(Chars(page.title)) # <<>> THEN Implode(Trim(Chars(page.title)))
                   ELSE IF page.ogTitle # "" THEN page.ogTitle
                   ELSE IF firstH1 # <<>> /\ firstH1[1] # <<>> THEN Implode(firstH1[1])
                   ELSE "Untitled Page",
         description |-> page.description,
         content |-> cleanContent(extractTextFromElement(page.elements)),
         headings |-> Slice(headings, 0, 20),
         listItems |-> Slice(listItems, 0, 50)]

\* the number of newlines that end just before index i
NewlinesBefore(cs, i) ==
    CHOOSE k \in 0..(i - 1) :
        /\ \A m \in 1..k : cs[i - m] = "\n"
        /\ At(cs, i - k - 1) # "\n"

\* content.split('\n\n'): the separators are taken from left to right, and
\* empty parts are kept
SplitParagraphs(cs) ==
    LET at == SelectSeq(Indices(cs),
                        LAMBDA i : /\ cs[i] = "\n" /\ At(cs, i + 1) = "\n"
                                   /\ NewlinesBefore(cs, i) % 2 = 0)
        from(k) == IF k = 1 THEN 1 ELSE at[k - 1] + 2
        to(k) == IF k = Len(at) + 1 THEN Len(cs) ELSE at[k] - 1
    IN  [k \in 1..(Len(at) + 1) |-> SubSeq(cs, from(k), to(k))]

\* a first slide that always takes its point from the content
FirstSlideFromContent(data) ==
    LET lines == Split(data.content, "\n")
    IN  [slideTitle |-> IF data.title # "" THEN data.title ELSE "Overview",
         points |-> <<IF lines[1] # <<>> THEN Implode(lines[1])
                      ELSE "Content from web page">>]

\* the first slide (lines 174-179)
FirstSlide(data) ==
    LET lines == Split(data.content, "\n")
    IN  [slideTitle |-> IF data.title # "" THEN data.title ELSE "Overview",
         points |-> <<IF data.description # "" THEN data.description
                      ELSE IF lines[1] # <<>> THEN Implode(lines[1])
                      ELSE "Content from web page">>]

\* the points of the section of heading i, counted from 0 (lines 188-202)
SectionPoints(data, i) ==
    LET heading == data.headings[i + 1]
        headingIndex == IndexOf(data.content, heading)
        nextHeadingIndex == IF i + 2 <= Len(data.headings)
                            THEN IndexOf(data.content, data.headings[i + 2])
                            ELSE Len(data.content)
        sectionContent == Substring(data.content, headingIndex + Len(heading), nextHeadingIndex)
        seps == {k \in DOMAIN sectionContent : sectionContent[k] \in {".", "\n"}}
        fit == SelectSeq(Runs(sectionContent, seps),
                         LAMBDA x : Len(Trim(x)) > 20 /\ Len(Trim(x)) < 300)
        top == Slice(fit, 0, 5)
    IN  [k \in DOMAIN top |-> Implode(Trim(top[k]))]

RECURSIVE HeadingLoopKeepEmpty(_, _, _)
\* a loop over the headings that pushes a slide for a section without points
HeadingLoopKeepEmpty(turns, data, first) ==
    IF turns = 0 THEN first
    ELSE Append(HeadingLoopKeepEmpty(turns - 1, data, first),
                [slideTitle |-> Implode(data.headings[turns]),
                 points |-> SectionPoints(data, turns - 1)])

RECURSIVE HeadingLoop(_, _, _)
\* the slides after the turns 0..(turns - 1) of the loop over the headings
HeadingLoop(turns, data, first) ==
    IF turns = 0 THEN first
    ELSE LET before == HeadingLoop(turns - 1, data, first)
             points == SectionPoints(data, turns - 1)
         IN  IF Len(points) > 0
             THEN Append(before, [slideTitle |-> Implode(data.headings[turns]),
                                  points |-> points])
             ELSE before

RECURSIVE ListLoop(_, _, _, _, _)
\* for (let i = 0; i < listItems.length && slides.length < slideCount; i += itemsPerSlide)
ListLoop(i, before, listItems, itemsPerSlide, slideCount) ==
    IF i < Len(listItems) /\ Len(before) < slideCount
    THEN LET slideItems == Slice(listItems, i, i + itemsPerSlide)
             top == Slice(slideItems, 0, 5)
         IN  ListLoop(i + itemsPerSlide,
                      Append(before, [slideTitle |-> "Key Points " \o ToString(Len(before)),
                                      points |-> [k \in DOMAIN top |-> Implode(top[k])]]),
                      listItems, itemsPerSlide, slideCount)
    ELSE before

\* p.substring(0, 200) + (p.length > 200 ? '...' : '')
Truncated(p) == Implode(Substring(p, 0, 200)) \o (IF Len(p) > 200 THEN "..." ELSE "")

RECURSIVE ParagraphLoop(_, _, _)
\* while (slides.length < slideCount) { ... if (points.length === 0) break; ... }
ParagraphLoop(before, paragraphs, slideCount) ==
    IF Len(before) < slideCount
    THEN LET startIndex == Len(before) * 2
             long == SelectSeq(Slice(paragraphs, startIndex, startIndex + 5),
                               LAMBDA p : Len(p) > 20)
         IN  IF long = <<>> THEN before
             ELSE ParagraphLoop(
                      Append(before, [slideTitle |-> "Section " \o ToString(Len(before) + 1),
                                      points |-> [k \in DOMAIN long |-> Truncated(long[k])]]),
                      paragraphs, slideCount)
    ELSE before

\* the slides before the paragraph step (lines 171-226)
SlidesBeforeParagraphs(data, slideCount) ==
    LET afterHeadings == HeadingLoop(Min(Len(data.headings), slideCount - 1), data,
                                     <<FirstSlide(data)>>)
    IN  IF Len(afterHeadings) < slideCount /\ Len(data.listItems) > 0
        THEN ListLoop(0, afterHeadings, data.listItems,
                      (Len(data.listItems) + (slideCount - Len(afterHeadings)) - 1)
                          \div (slideCount - Len(afterHeadings)),
                      slideCount)
        ELSE afterHeadings

scrapedToBasicSlides(data, slideCount) ==
    [title |-> IF data.title # "" THEN data.title ELSE "Web Content Presentation",
     slides |-> Slice(ParagraphLoop(SlidesBeforeParagraphs(data, slideCount),
                                    SplitParagraphs(data.content), slideCount),
                      0, slideCount)]

(***************************************************************************)
(* SpecPage: one page scraped and turned into basic slides, as             *)
(* generateFromURL does with enhance off                                   *)
(***************************************************************************)
MaxElements == 3

\* a first-level heading; a paragraph of two sentences; a list item; a list
\* item too short to be collected; a line of interface text; a heading whose
\* two blanks the cleaning of the content collapses
PageElements ==
    {[tag |-> "h1", text |-> "Solar power basics"],
     [tag |-> "p", text |-> "Solar panels turn sunlight into electricity. They last for about thirty years"],
     [tag |-> "li", text |-> "Panels need little maintenance"],
     [tag |-> "li", text |-> "Cheap"],
     [tag |-> "p", text |-> "Subscribe to our newsletter"],
     [tag |-> "h3", text |-> "Wind  power"]}

PageHeads ==
    {[title |-> "Solar Energy Guide", ogTitle |-> "", description |-> "How solar power works"],
     [title |-> " ", ogTitle |-> "Solar guide", description |-> ""],
     [title |-> "", ogTitle |-> "", description |-> ""]}

WebPages ==
    {[title |-> head.title, ogTitle |-> head.ogTitle, description |-> head.description,
      elements |-> elements] :
        head \in PageHeads,
        elements \in UNION {[1..n -> PageElements] : n \in 0..MaxElements}}

PageSlideCounts == {1, 2, 3, MaxSlideCount}

InitPage ==
    /\ webPage \in WebPages
    /\ scrapedData = <<>>
    /\ pageSlides \in PageSlideCounts
    /\ pageDeck = <<>>
    /\ IdleExceptPage

\* const scrapedData = await scrapeUrl(url), the fetch having given webPage
ScrapeFetched ==
    /\ webPage # <<>> /\ scrapedData = <<>>
    /\ scrapedData' = <<ExtractPage(webPage)>>
    /\ UNCHANGED <<webPage, pageSlides, pageDeck, notPage>>

\* if (!scrapedData.content || scrapedData.content.length < 50) return next(...)
RefuseThinPage ==
    /\ scrapedData # <<>> /\ pageDeck = <<>>
    /\ Len(scrapedData[1].content) < 50
    /\ pageDeck' = <<[refused |-> TRUE]>>
    /\ UNCHANGED <<webPage, scrapedData, pageSlides, notPage>>

\* presentation = scrapedToBasicSlides(scrapedData, slides)
BuildFromPage ==
    /\ scrapedData # <<>> /\ pageDeck = <<>>
    /\ Len(scrapedData[1].content) >= 50
    /\ \E deck \in {scrapedToBasicSlides(scrapedData[1], pageSlides)} :
           pageDeck' = <<[refused |-> FALSE, deck |-> deck]>>
    /\ UNCHANGED <<webPage, scrapedData, pageSlides, notPage>>

NextPage == ScrapeFetched \/ RefuseThinPage \/ BuildFromPage

SpecPage == InitPage /\ [][NextPage]_vars

PageBuilt == pageDeck # <<>> /\ ~pageDeck[1].refused

PageDeckSlides == pageDeck[1].deck.slides

(***************************************************************************)
(* Properties of the deck built from a scraped page                        *)
(***************************************************************************)
\* the content up to its first newline
FirstContentLine ==
    LET content == scrapedData[1].content
        newlines == SelectSeq(Indices(content), LAMBDA i : content[i] = "\n")
    IN  Implode(SubSeq(content, 1, IF newlines = <<>> THEN Len(content) ELSE newlines[1] - 1))

\* C23: scrapedToBasicSlides returns between 1 and slideCount slides, and the
\* first slide has the title of the page and exactly one point: the
\* description when there is one, otherwise the first line of the content
C23_CountAndTitleSlide ==
    PageBuilt =>
        /\ Len(PageDeckSlides) >= 1
        /\ Len(PageDeckSlides) <= pageSlides
        /\ PageDeckSlides[1].slideTitle = scrapedData[1].title
        /\ Len(PageDeckSlides[1].points) = 1
        /\ PageDeckSlides[1].points[1] =
               (IF scrapedData[1].description # "" THEN scrapedData[1].description
                ELSE FirstContentLine)

\* a page without description, with a heading, a paragraph and a list item,
\* built with slideCount 2: two slides, the first with the first content line
C23_Witness ==
    /\ PageBuilt
    /\ pageSlides = 2
    /\ scrapedData[1].description = ""
    /\ Len(scrapedData[1].headings) = 1 /\ Len(scrapedData[1].listItems) = 1
    /\ Len(PageDeckSlides) = 2
    /\ PageDeckSlides[1].points = <<"Solar power basics">>

\* the lines of the content: cleanContent leaves each extracted text on a
\* line of its own
ContentLines == Split(scrapedData[1].content, "\n")

\* no point of the deck is taken from the line
OnNoSlide(line) ==
    \A n \in DOMAIN PageDeckSlides : \A k \in DOMAIN PageDeckSlides[n].points :
        IndexOf(line, Chars(PageDeckSlides[n].points[k])) = -1

SlidesBeforeParagraphStep == SlidesBeforeParagraphs(scrapedData[1], pageSlides)

\* C24: when the heading and list-item steps leave fewer than slideCount
\* slides, the slides added are titled 'Section n' and made of paragraphs cut
\* at 200 characters, and they are added until the deck has slideCount slides
\* or no paragraph of more than 20 characters is left unused
C24_SectionsFromParagraphs ==
    (PageBuilt /\ Len(SlidesBeforeParagraphStep) < pageSlides) =>
        /\ \A n \in (Len(SlidesBeforeParagraphStep) + 1)..Len(PageDeckSlides) :
               /\ PageDeckSlides[n].slideTitle = "Section " \o ToString(n)
               /\ \A k \in DOMAIN PageDeckSlides[n].points :
                      Len(PageDeckSlides[n].points[k]) <= 203
        /\ \/ Len(PageDeckSlides) = pageSlides
           \/ \A k \in DOMAIN ContentLines :
                  Len(ContentLines[k]) > 20 => ~OnNoSlide(ContentLines[k])

\* what the code gives for a page of scrapeUrl: the paragraph step adds
\* nothing, as the content has no blank line to split at
ParagraphStepAddsNothing ==
    PageBuilt =>
        /\ IndexOf(scrapedData[1].content, <<"\n", "\n">>) = -1
        /\ PageDeckSlides = Slice(SlidesBeforeParagraphStep, 0, pageSlides)

\* two paragraphs and no heading or list item, slideCount 20: one slide, and
\* the second paragraph is on none
ParagraphLeftUnused ==
    /\ PageBuilt
    /\ pageSlides = MaxSlideCount
    /\ scrapedData[1].headings = <<>> /\ scrapedData[1].listItems = <<>>
    /\ Len(ContentLines) = 2
    /\ Len(ContentLines[2]) > 20
    /\ Len(PageDeckSlides) = 1
    /\ OnNoSlide(ContentLines[2])

(***************************************************************************)
(* SpecFallback: either fallback builder at work                           *)
(***************************************************************************)
InitFallback == InitText \/ InitPage

NextFallback == NextText \/ NextPage

SpecFallback == InitFallback /\ [][NextFallback]_vars

\* a slide parseAIResponse accepts and the point cap allows: a non-empty
\* slideTitle and one to five non-empty points
PassesSlideValidation(slide) ==
    /\ slide.slideTitle # ""
    /\ Len(slide.points) >= 1
    /\ Len(slide.points) <= 5
    /\ \A k \in DOMAIN slide.points : slide.points[k] # ""

\* C29: every slide of a deck built by textToBasicSlides or by
\* scrapedToBasicSlides has a non-empty slideTitle and one to five non-empty
\* points
C29_FallbackSlidesValid ==
    /\ TextReturned => \A n \in DOMAIN BuiltSlides : PassesSlideValidation(BuiltSlides[n])
    /\ PageBuilt => \A n \in DOMAIN PageDeckSlides : PassesSlideValidation(PageDeckSlides[n])

\* a heading whose section gives no point was passed over, and the deck of
\* the page still has a slide of list items
C29_Witness ==
    /\ PageBuilt
    /\ Len(scrapedData[1].headings) = 2
    /\ SectionPoints(scrapedData[1], 1) = <<>>
    /\ pageSlides = 3
    /\ Len(PageDeckSlides) = 3
    /\ PageDeckSlides[3].slideTitle = "Key Points 2"

(***************************************************************************)
(* SpecBatch: one call of fetchImagesForSlides (backend/config/ai.js),     *)
(* step by step: the callbacks slides.map runs, the resumption of each     *)
(* callback that awaits an image, and the promise of Promise.all           *)
(***************************************************************************)
MaxBatch == 3

\* slides with a keyword, one of them with a further field and one with an
\* imageUrl already; a slide without keyword; a slide with an empty keyword
BatchSlideKinds ==
    {JObject(<<Member("slideTitle", JString("Solar Basics")),
               Member("points", Points(<<"Costs fell 80%">>)),
               Member("imageKeyword", JString("solar panels"))>>),
     JObject(<<Member("slideTitle", JString("Networks")),
               Member("imageKeyword", JString("fiber optic cables")),
               Member("points", Points(<<"Fiber carries light">>)),
               Member("notes", JString("keep"))>>),
     JObject(<<Member("slideTitle", JString("Growth")),
               Member("imageUrl", JString("https://img/old")),
               Member("imageKeyword", JString("growth")),
               Member("points", Points(<<"Up 12%">>))>>),
     JObject(<<Member("slideTitle", JString("Costs")),
               Member("points", Points(<<"one", "two">>))>>),
     JObject(<<Member("slideTitle", JString("Summary")),
               Member("points", Points(<<"done">>)),
               Member("imageKeyword", JString(""))>>)}

BatchDecks == UNION {[1..n -> BatchSlideKinds] : n \in 0..MaxBatch}

\* a promise of imagePromises
PendingPromise == [state |-> "pending", value |-> JUndefined]
Fulfilled(value) == [state |-> "fulfilled", value |-> value]

\* if (slide.imageKeyword)
HasKeyword(slide) == Truthy(Get(slide, "imageKeyword"))

\* a loop that awaits the image of a slide before it turns to the next
MapTurnAfterSettled(promises) ==
    \A i \in DOMAIN promises : promises[i].state = "fulfilled"

\* slides.map calls the callback of the next slide whatever the state of the
\* promises of the slides before it
MapTurnReady(promises) == TRUE

InitBatch ==
    /\ batchPc = "mapping"
    /\ batchSlides \in BatchDecks
    /\ batchNext = 1
    /\ batchCalls = <<>>
    /\ batchPromises = <<>>
    /\ batchOrder = <<>>
    /\ batchResult = <<>>
    /\ IdleExceptBatch

\* one callback of slides.map, up to its await or its return
MapCallback ==
    /\ batchPc = "mapping"
    /\ batchNext <= Len(batchSlides)
    /\ MapTurnReady(batchPromises)
    /\ batchNext' = batchNext + 1
    /\ IF HasKeyword(batchSlides[batchNext])
       THEN /\ batchCalls' = Append(batchCalls,
                                    [slide |-> batchNext,
                                     keyword |-> Get(batchSlides[batchNext],
                                                     "imageKeyword").string])
            /\ batchPromises' = Append(batchPromises, PendingPromise)
            /\ UNCHANGED batchOrder
       ELSE /\ batchPromises' = Append(batchPromises, Fulfilled(batchSlides[batchNext]))
            /\ batchOrder' = Append(batchOrder, batchNext)
            /\ UNCHANGED batchCalls
    /\ UNCHANGED <<batchPc, batchSlides, batchResult, notBatch>>

\* return Promise.all(imagePromises)
AwaitAll ==
    /\ batchPc = "mapping"
    /\ batchNext > Len(batchSlides)
    /\ batchPc' = "awaiting"
    /\ UNCHANGED <<batchSlides, batchNext, batchCalls, batchPromises, batchOrder,
                   batchResult, notBatch>>

\* the callback of slide i goes on after its await, once the synchronous code
\* has run as far as it can: return { ...slide, imageUrl }
Resume(i) ==
    /\ batchPc = "awaiting" \/ (batchPc = "mapping" /\ ~MapTurnReady(batchPromises))
    /\ i \in DOMAIN batchPromises
    /\ batchPromises[i].state = "pending"
    /\ \E imageUrl \in {fetchImageForSlide(Get(batchSlides[i], "imageKeyword").string).url} :
           batchPromises' =
               [batchPromises EXCEPT
                    ![i] = Fulfilled(SetMember(batchSlides[i], "imageUrl", JString(imageUrl)))]
    /\ batchOrder' = Append(batchOrder, i)
    /\ UNCHANGED <<batchPc, batchSlides, batchNext, batchCalls, batchResult, notBatch>>

\* the promise of Promise.all is fulfilled with the values in the order of
\* imagePromises
AllFulfilled ==
    /\ batchPc = "awaiting"
    /\ \A i \in DOMAIN batchPromises : batchPromises[i].state = "fulfilled"
    /\ batchResult' = <<[i \in DOMAIN batchPromises |-> batchPromises[i].value]>>
    /\ batchPc' = "returned"
    /\ UNCHANGED <<batchSlides, batchNext, batchCalls, batchPromises, batchOrder, notBatch>>

NextBatch ==
    \/ MapCallback
    \/ AwaitAll
    \/ \E i \in 1..MaxBatch : Resume(i)
    \/ AllFulfilled

SpecBatch == InitBatch /\ [][NextBatch]_vars

\* the slides of the call that have a keyword, by index
KeywordSlides == {i \in DOMAIN batchSlides : HasKeyword(batchSlides[i])}

\* the callbacks that went on after their await
Resumed == {i \in KeywordSlides : i \in DOMAIN batchPromises /\ batchPromises[i].state = "fulfilled"}

\* the members of the slide but for imageUrl
OtherMembers(slide) == SelectSeq(slide.members, LAMBDA m : m.key # "imageUrl")

\* C21: the image resolution of every slide with a keyword is started before
\* any of them is awaited to its end, the call completes only when all have
\* completed, and in whatever order they do the result has the slides of the
\* input in their order, a slide with a keyword carrying its imageUrl and
\* otherwise as it was, a slide without keyword as it was
C21_AllStartedThenJoined ==
    /\ Resumed # {} =>
           /\ Len(batchCalls) = Cardinality(KeywordSlides)
           /\ \A i \in KeywordSlides : \E k \in DOMAIN batchCalls : batchCalls[k].slide = i
    /\ batchPc # "returned" => batchResult = <<>>
    /\ batchPc = "returned" =>
           /\ Len(batchOrder) = Len(batchSlides)
           /\ Resumed = KeywordSlides
           /\ Len(batchResult[1]) = Len(batchSlides)
           /\ \A i \in DOMAIN batchSlides :
                  IF HasKeyword(batchSlides[i])
                  THEN /\ Get(batchResult[1][i], "imageUrl") =
                              JString(fetchImageForSlide(
                                          Get(batchSlides[i], "imageKeyword").string).url)
                       /\ OtherMembers(batchResult[1][i]) = OtherMembers(batchSlides[i])
                  ELSE batchResult[1][i] = batchSlides[i]

\* three slides, the second without keyword; the image of the third came
\* before the image of the first, and the result is in the order of the input
C21_Witness ==
    /\ batchPc = "returned"
    /\ Len(batchSlides) = 3
    /\ KeywordSlides = {1, 3}
    /\ batchOrder = <<2, 3, 1>>
    /\ Get(batchResult[1][1], "slideTitle") = Get(batchSlides[1], "slideTitle")
    /\ Get(batchResult[1][1], "imageUrl").type = "string"
    /\ Get(batchResult[1][2], "imageUrl") = JUndefined

(***************************************************************************)
(* SpecStore: the stored presentations of several users.  Requests to      *)
(* generate, to get and to delete (generateController.js) come in behind   *)
(* protect and optionalAuth (middleware) and run concurrently, one         *)
(* database operation at a time.                                           *)
(***************************************************************************)
MaxRequests == 3
MaxDocs == 2

\* the users with an account
Users == {"ana", "ben"}

\* who sends a request: a user with a valid token, or nobody
Senders == Users \cup {"nobody"}

\* the document Presentation.create stores for the user
NewDocument(id, user) ==
    [id |-> id, user |-> user, title |-> "Deck " \o ToString(id) \o " of " \o user]

\* Presentation.findOne({ _id: id }): a lookup that leaves the user out
FindById(id, user) == {doc \in collection : doc.id = id}

\* Presentation.findOne({ _id: req.params.id, user: req.user.id }): the set
\* with the document found, empty when there is none
FindOne(id, user) == {doc \in collection : doc.id = id /\ doc.user = user}

Response(request, status, body) ==
    [user |-> request.user, kind |-> request.kind, id |-> request.id,
     status |-> status, body |-> body]

InitStore ==
    /\ collection = {}
    /\ userLists = [u \in Users |-> <<>>]
    /\ createdBy = <<>>
    /\ inflight = {}
    /\ arrived = 0
    /\ served = {}
    /\ lastStep = <<>>
    /\ IdleExceptStore

\* the request leaves the handler with a response
Respond(request, status, body) ==
    /\ inflight' = inflight \ {request}
    /\ served' = served \cup {Response(request, status, body)}

\* the request goes on to its next database operation
GoOn(request, pc) ==
    /\ inflight' = (inflight \ {request}) \cup {[request EXCEPT !.pc = pc]}
    /\ UNCHANGED served

Acts(request) == lastStep' = <<[user |-> request.user, kind |-> request.kind, id |-> request.id]>>

\* a request arrives at the router and passes its middleware: optionalAuth
\* lets a generation through, protect answers 401 when no token comes with
\* the request and calls the handler otherwise.  The _id asked for is one
\* that was created or the next one, which stands for all that do not exist.
Receive(user, kind, id) ==
    /\ arrived < MaxRequests
    /\ kind = "generate" => id = 0 /\ user \in Users /\ Len(createdBy) < MaxDocs
    /\ kind # "generate" => id \in 1..(Len(createdBy) + 1)
    /\ arrived' = arrived + 1
    /\ LET request == [rid |-> arrived + 1, user |-> user, kind |-> kind, id |-> id,
                       pc |-> IF kind = "generate" THEN "create" ELSE "findOne"]
       IN  IF kind # "generate" /\ user \notin Users
           THEN /\ served' = served \cup {Response(request, 401,
                                                   "Not authorized, no token provided")}
                /\ UNCHANGED inflight
           ELSE /\ inflight' = inflight \cup {request}
                /\ UNCHANGED served
    /\ lastStep' = <<>>
    /\ UNCHANGED <<collection, userLists, createdBy, notStore>>

\* const savedPresentation = await Presentation.create({..., user: req.user.id, ...})
Create(request) ==
    /\ request \in inflight /\ request.pc = "create"
    /\ collection' = collection \cup {NewDocument(Len(createdBy) + 1, request.user)}
    /\ createdBy' = Append(createdBy, request.user)
    /\ inflight' = (inflight \ {request})
                       \cup {[request EXCEPT !.pc = "push", !.id = Len(createdBy) + 1]}
    /\ lastStep' = <<[user |-> request.user, kind |-> "generate", id |-> Len(createdBy) + 1]>>
    /\ UNCHANGED <<userLists, arrived, served, notStore>>

\* await User.findByIdAndUpdate(req.user.id, { $push: { presentations: savedPresentation._id } })
\* and the response
Push(request) ==
    /\ request \in inflight /\ request.pc = "push"
    /\ userLists' = [userLists EXCEPT ![request.user] = Append(@, request.id)]
    /\ Respond(request, 200, NewDocument(request.id, request.user).title)
    /\ Acts(request)
    /\ UNCHANGED <<collection, createdBy, arrived, notStore>>

\* getPresentationById, and deletePresentation up to its deleteOne
Find(request) ==
    /\ request \in inflight /\ request.pc = "findOne"
    /\ IF FindOne(request.id, request.user) = {}
       THEN Respond(request, 404, "Presentation not found")
       ELSE IF request.kind = "get"
       THEN \E doc \in FindOne(request.id, request.user) : Respond(request, 200, doc.title)
       ELSE GoOn(request, "deleteOne")
    /\ Acts(request)
    /\ UNCHANGED <<collection, userLists, createdBy, arrived, notStore>>

\* await presentation.deleteOne()
DeleteOne(request) ==
    /\ request \in inflight /\ request.pc = "deleteOne"
    /\ collection' = {doc \in collection : doc.id # request.id}
    /\ GoOn(request, "pull")
    /\ Acts(request)
    /\ UNCHANGED <<userLists, createdBy, arrived, notStore>>

\* await User.findByIdAndUpdate(req.user.id, { $pull: { presentations: req.params.id } })
\* and the response
Pull(request) ==
    /\ request \in inflight /\ request.pc = "pull"
    /\ userLists' = [userLists EXCEPT
                         ![request.user] = SelectSeq(@, LAMBDA id : id # request.id)]
    /\ Respond(request, 200, "Presentation deleted successfully")
    /\ Acts(request)
    /\ UNCHANGED <<collection, createdBy, arrived, notStore>>

NextStore ==
    \/ \E user \in Senders, kind \in {"generate", "get", "delete"}, id \in 0..MaxDocs :
           Receive(user, kind, id)
    \/ \E request \in inflight : Create(request)
    \/ \E request \in inflight : Push(request)
    \/ \E request \in inflight : Find(request)
    \/ \E request \in inflight : DeleteOne(request)
    \/ \E request \in inflight : Pull(request)

SpecStore == InitStore /\ [][NextStore]_vars

\* the request is for a presentation stored under another user
ForAnothersPresentation(request) ==
    /\ request.kind \in {"get", "delete"}
    /\ request.id \in DOMAIN createdBy
    /\ createdBy[request.id] # request.user

\* every response to a get or delete fits the owner of the presentation: 200
\* with the title only for the user it was stored under, 404 for another user
AnsweredToOwnerOnly ==
    \A response \in served :
        /\ (response.kind = "get" /\ response.status = 200) =>
               /\ response.id \in DOMAIN createdBy
               /\ createdBy[response.id] = response.user
               /\ response.body = NewDocument(response.id, response.user).title
        /\ (response.kind = "delete" /\ response.status = 200) =>
               /\ response.id \in DOMAIN createdBy
               /\ createdBy[response.id] = response.user
        /\ (ForAnothersPresentation(response) /\ response.user \in Users) =>
               response.status = 404

\* a step removes a document only for a delete of the user it was stored
\* under, changes the list of a user only for a request of that user, and a
\* step of a request for another user's presentation changes neither
StepRespectsOwner ==
    /\ \A doc \in collection :
           doc \notin collection' =>
               lastStep' = <<[user |-> doc.user, kind |-> "delete", id |-> doc.id]>>
    /\ \A user \in Users :
           userLists'[user] # userLists[user] =>
               lastStep' # <<>> /\ lastStep'[1].user = user
    /\ (lastStep' # <<>> /\ ForAnothersPresentation(lastStep'[1])) =>
           collection' = collection /\ userLists' = userLists

\* C30: over the generate, get and delete requests of several users a
\* presentation is returned only to the user it was stored under and deleted
\* only at the request of that user, and a request for another user's
\* presentation is answered 404 and leaves the stored presentations and the
\* lists of both users as they were
C30_PerUserIsolation == []AnsweredToOwnerOnly /\ [][StepRespectsOwner]_vars

\* ana stored a presentation; ben asked for it and asked to delete it and was
\* answered 404 both times; the presentation and ana's list are still there
C30_Witness ==
    /\ createdBy = <<"ana">>
    /\ [user |-> "ben", kind |-> "get", id |-> 1, status |-> 404,
        body |-> "Presentation not found"] \in served
    /\ [user |-> "ben", kind |-> "delete", id |-> 1, status |-> 404,
        body |-> "Presentation not found"] \in served
    /\ collection = {NewDocument(1, "ana")}
    /\ userLists = [u \in Users |-> IF u = "ana" THEN <<1>> ELSE <<>>]
====
